---------------------------- MODULE Spec2Model ----------------------------
(***************************************************************************)
(* Model of the portfolio chatbot's retrieval-augmented-generation core:   *)
(* RAGService (query orchestration, vector search, rule-based fallback     *)
(* context selection, prompt assembly, bulk ingestion) and the             *)
(* DocumentProcessor (chunking of PDF, text and markdown files).           *)
(*                                                                         *)
(* JavaScript strings are TLA+ strings; TLC evaluates Len, SubSeq and \o   *)
(* on them character by character.  JavaScript arrays are sequences.       *)
(* An optional property that is absent is a field missing from the         *)
(* record's DOMAIN.                                                        *)
(***************************************************************************)
EXTENDS Integers, Sequences, FiniteSets, TLC

(***************************************************************************)
(* Bounds of the model.                                                    *)
(***************************************************************************)
MaxExp == 7        \* experience entries in contentData
MaxApps == 2       \* project entries in contentData
MaxEdu == 3        \* education entries in contentData
MaxSkills == 2     \* skill categories in contentData.about.skills
MaxMatches == 2    \* matches in one vector-index response
MaxHistory == 7    \* turns in the conversation history passed to query()
MaxCalls == 3      \* successive calls of getFallbackContext on one service
MaxDocs == 102     \* documents passed to one ingestDocuments() call
MaxRuns == 2       \* ingestDocuments() calls on one index
MaxTime == 1       \* milliseconds the clock advances
MaxParts == 3      \* fragments a file's content is put together from
MaxEntries == 2    \* entries of the directory handed to processDirectory
MaxDepth == 2      \* directory levels below which no directory is nested
MaxMessages == 3   \* messages, outstanding requests and timers beyond which nothing more is submitted
MaxTimers == 1     \* auto-submits of openChatWithMessage events waiting to fire

(***************************************************************************)
(* String and array primitives of the JavaScript runtime.                  *)
(***************************************************************************)
Min(a, b) == IF a < b THEN a ELSE b

Max(a, b) == IF a > b THEN a ELSE b

\* String.prototype.includes
Includes(s, t) == \E i \in 0..(Len(s) - Len(t)) : SubSeq(s, i + 1, i + Len(t)) = t

UpperToLower ==
  [A |-> "a", B |-> "b", C |-> "c", D |-> "d", E |-> "e", F |-> "f", G |-> "g",
   H |-> "h", I |-> "i", J |-> "j", K |-> "k", L |-> "l", M |-> "m", N |-> "n",
   O |-> "o", P |-> "p", Q |-> "q", R |-> "r", S |-> "s", T |-> "t", U |-> "u",
   V |-> "v", W |-> "w", X |-> "x", Y |-> "y", Z |-> "z"]

\* String.prototype.toLowerCase
RECURSIVE toLowerCase(_)
toLowerCase(s) ==
  IF s = "" THEN ""
  ELSE LET c == SubSeq(s, 1, 1)
       IN  (IF c \in DOMAIN UpperToLower THEN UpperToLower[c] ELSE c)
             \o toLowerCase(SubSeq(s, 2, Len(s)))

LowerAlnum ==
  {"a", "b", "c", "d", "e", "f", "g", "h", "i", "j", "k", "l", "m", "n", "o",
   "p", "q", "r", "s", "t", "u", "v", "w", "x", "y", "z",
   "0", "1", "2", "3", "4", "5", "6", "7", "8", "9"}

\* s.replace(/[^a-z0-9]/g, '')
RECURSIVE stripNonAlnum(_)
stripNonAlnum(s) ==
  IF s = "" THEN ""
  ELSE LET c == SubSeq(s, 1, 1)
       IN  (IF c \in LowerAlnum THEN c ELSE "") \o stripNonAlnum(SubSeq(s, 2, Len(s)))

\* Array.prototype.join over an array of strings
RECURSIVE Join(_, _)
Join(arr, sep) ==
  IF Len(arr) = 0 THEN ""
  ELSE IF Len(arr) = 1 THEN arr[1]
  ELSE arr[1] \o sep \o Join(Tail(arr), sep)

\* Array.prototype.slice(0, n)
SliceFirst(arr, n) == SubSeq(arr, 1, Min(n, Len(arr)))

\* Array.prototype.slice(-n)
SliceLast(arr, n) == SubSeq(arr, Max(1, Len(arr) - n + 1), Len(arr))

Digit == <<"0", "1", "2", "3", "4", "5", "6", "7", "8", "9">>

\* String(n) for a non-negative integer, as a template literal renders it
RECURSIVE NumToStr(_)
NumToStr(n) == IF n < 10 THEN Digit[n + 1] ELSE NumToStr(n \div 10) \o Digit[(n % 10) + 1]

\* `${x}` of an optional string property
Render(rec, field) == IF field \in DOMAIN rec THEN rec[field] ELSE "undefined"

(***************************************************************************)
(* StructuredContent: values of type ContentData.  The entries are taken   *)
(* from fixed pools; a content is the first e experience entries, the      *)
(* first a projects, the first d education entries and the first s skill   *)
(* categories, with or without a contact phone.  Pool entries differ in    *)
(* which optional properties they carry.  ContentData varies the three     *)
(* lists against each other, and the about record against the presence of  *)
(* an experience entry.                                                    *)
(***************************************************************************)
ExperienceItem(i) ==
  IF i = 1 THEN
    [company |-> "Acme Corp", role |-> "AI Engineer", period |-> "2023-Now",
     tags |-> <<"AI", "ML">>,
     responsibilities |-> <<"Built RAG.", "Led team.">>,
     impact |-> <<[k |-> "latency", v |-> 40], [k |-> "users", v |-> 7]>>,
     stack |-> <<"Python", "AWS">>]
  ELSE IF i = 2 THEN
    [company |-> "Globex", role |-> "Intern", period |-> "2022"]
  ELSE IF i % 2 = 1 THEN
    [company |-> "Co" \o NumToStr(i), role |-> "Dev", period |-> "20" \o NumToStr(10 + i),
     tags |-> <<"Web">>]
  ELSE
    [company |-> "Co" \o NumToStr(i), role |-> "Dev", period |-> "20" \o NumToStr(10 + i),
     stack |-> <<"Go">>]

AppItem(i) ==
  IF i % 2 = 1 THEN
    [title |-> "App" \o NumToStr(i), shortDescription |-> "A tool", tech |-> <<"React", "Node">>,
     myContribution |-> "Wrote it all."]
  ELSE
    [title |-> "Bot" \o NumToStr(i), shortDescription |-> "A bot", tech |-> <<>>]

EducationItem(i) ==
  IF i % 3 # 0 THEN
    [institution |-> "State U" \o NumToStr(i), program |-> "CS", degreeLevel |-> "MS",
     period |-> "2021-2023", courses |-> <<"NLP", "OS">>]
  ELSE
    [institution |-> "Tech" \o NumToStr(i), program |-> "EE", degreeLevel |-> "BS",
     period |-> "2017-2021"]

\* one [category, skills] pair of Object.entries(about.skills), in insertion order
SkillEntry(i) ==
  IF i = 1 THEN [category |-> "AI/ML", skills |-> <<"PyTorch", "RAG">>]
  ELSE IF i = 2 THEN [category |-> "Cloud", skills |-> <<"AWS">>]
  ELSE [category |-> "Cat" \o NumToStr(i), skills |-> <<>>]

Contact(withPhone) ==
  IF withPhone
  THEN [email |-> "h@x.io", github |-> "gh/h", linkedin |-> "in/h", phone |-> "555"]
  ELSE [email |-> "h@x.io", github |-> "gh/h", linkedin |-> "in/h"]

Content(e, a, d, s, withPhone) ==
  [apps |-> [i \in 1..a |-> AppItem(i)],
   education |-> [i \in 1..d |-> EducationItem(i)],
   experience |-> [i \in 1..e |-> ExperienceItem(i)],
   about |-> [bio |-> "AI engineer.",
              skills |-> [i \in 1..s |-> SkillEntry(i)],
              contact |-> Contact(withPhone)]]

ContentData ==
  {Content(e, a, d, 1, TRUE) : e \in 0..MaxExp, a \in 0..MaxApps, d \in 0..MaxEdu}
    \cup {Content(e, 1, 1, s, p) : e \in 0..1, s \in 0..MaxSkills, p \in BOOLEAN}

(***************************************************************************)
(* Values thrown and returned.                                             *)
(***************************************************************************)
Error(msg) == [name |-> "Error", message |-> msg]

\* edu.courses.join on an entry without courses
JoinOfUndefined ==
  [name |-> "TypeError", message |-> "Cannot read properties of undefined (reading 'join')"]

Returned(v) == [kind |-> "return", value |-> v]

Thrown(e) == [kind |-> "throw", value |-> e]

NoResult == [kind |-> "none", value |-> ""]


(***************************************************************************)
(* State.                                                                  *)
(***************************************************************************)
VARIABLES
  env,                  \* process.env: which API keys are set
  contentData,          \* the StructuredContent imported from @/lib/data
  pinecone,             \* RAGService.pinecone: "null" or "client"
  isInitialized,        \* RAGService.isInitialized
  pc,                   \* where the current query() invocation is suspended
  userQuery,            \* query(): userQuery
  conversationHistory,  \* query(): conversationHistory
  searchResults,        \* searchVectorStore(): the index response
  contexts,             \* query() / getFallbackContext(): contexts
  prompt,               \* query(): prompt sent with the completion request
  completion,           \* query(): the completion response
  result,               \* what the invocation returned or threw
  console,              \* messages written by console.log / warn / error
  calls,                \* backend requests issued by the current invocation
  selections,           \* every (query, outcome) of getFallbackContext so far
  runs,                 \* the ingestDocuments() invocations, by run
  upserts,              \* the records the vector index has committed, in order
  now,                  \* Date.now()
  processor,            \* DocumentProcessor: chunkSize, chunkOverlap
  file,                 \* the file or directory handed to the DocumentProcessor
  processed,            \* what the DocumentProcessor returned or threw
  chunker,              \* chunkText(): sentences, loop position, currentChunk, chunks
  isOpen,               \* ChatBot: isOpen
  messages,             \* ChatBot: messages
  input,                \* ChatBot: input
  isLoading,            \* ChatBot: isLoading
  timers,               \* ChatBot: the pending setTimeout callbacks of handleOpenChat
  fetches               \* ChatBot: the /api/chat requests sent, settled or not

\* the state of query() and of the service it runs in
queryVars == <<env, contentData, pinecone, isInitialized, pc, userQuery, conversationHistory,
               searchResults, contexts, prompt, completion, result, console, calls>>

ingestVars == <<runs, upserts, now>>

processorVars == <<processor, file, processed, chunker>>

chatVars == <<isOpen, messages, input, isLoading, timers, fetches>>

vars == <<queryVars, selections, ingestVars, processorVars, chatVars>>

\* what no step of query() touches
outsideQuery == <<selections, ingestVars, processorVars, chatVars>>

NoFile == [name |-> "", content |-> "", readable |-> TRUE]

SelectorIdle == selections = <<>>

IngestIdle ==
  /\ runs = <<>>
  /\ upserts = <<>>
  /\ now = 0

NoChunker == [sentences |-> <<>>, k |-> 0, currentChunk |-> "", chunks |-> <<>>]

ProcessorIdle ==
  /\ processor = [chunkSize |-> 1000, chunkOverlap |-> 200]
  /\ file = NoFile
  /\ processed = [kind |-> "none", value |-> ""]
  /\ chunker = NoChunker

\* the component as useState initialises it
ChatIdle ==
  /\ isOpen = FALSE
  /\ messages = <<>>
  /\ input = ""
  /\ isLoading = FALSE
  /\ timers = <<>>
  /\ fetches = <<>>

(***************************************************************************)
(* RAGService.getFallbackContext                                           *)
(***************************************************************************)
AboutLine(cd) == "About Harishraj: " \o cd.about.bio

ContactLine(cd) ==
  "Contact: Email: " \o cd.about.contact.email \o ", Phone: " \o Render(cd.about.contact, "phone")

LinksLine(cd) ==
  "LinkedIn: " \o cd.about.contact.linkedin \o ", GitHub: " \o cd.about.contact.github

skillsText(cd) ==
  Join([i \in 1..Len(cd.about.skills) |->
          cd.about.skills[i].category \o ": " \o Join(cd.about.skills[i].skills, ", ")],
       ". ")

SkillsLine(cd) == "Skills: " \o skillsText(cd)

\* the always-included block with one pushed string per skill category
AlwaysIncluded_perCategory(cd) ==
  <<AboutLine(cd), ContactLine(cd)>>
    \o [i \in 1..Len(cd.about.skills) |->
          cd.about.skills[i].category \o ": " \o Join(cd.about.skills[i].skills, ", ")]

\* the four pushes that precede every conditional group
AlwaysIncluded(cd) == <<AboutLine(cd), ContactLine(cd), LinksLine(cd), SkillsLine(cd)>>

\* the company test in one direction only
companyMatch_oneWay(exp, queryLower) ==
  Includes(stripNonAlnum(queryLower), stripNonAlnum(toLowerCase(exp.company)))

\* the test inside contentData.experience.forEach that fills companyMatches
companyMatch(exp, queryLower) ==
  LET companyLower == stripNonAlnum(toLowerCase(exp.company))
      queryNormalized == stripNonAlnum(queryLower)
  IN  Includes(queryNormalized, companyLower) \/ Includes(companyLower, queryNormalized)

companyMatches(cd, queryLower) ==
  LET RECURSIVE collect(_)
      collect(i) ==
        IF i > Len(cd.experience) THEN <<>>
        ELSE (IF companyMatch(cd.experience[i], queryLower)
              THEN <<cd.experience[i].company>> ELSE <<>>) \o collect(i + 1)
  IN  collect(1)

\* the experience condition without companyMatches.length > 0
includeExperience_keywordsOnly(cd, queryLower) ==
  \/ Includes(queryLower, "experience")
  \/ Includes(queryLower, "work")
  \/ Includes(queryLower, "job")
  \/ Includes(queryLower, "role")
  \/ Includes(queryLower, "position")
  \/ Includes(queryLower, "summarize")
  \/ Includes(queryLower, "tell me about")

includeExperience(cd, queryLower) ==
  \/ Includes(queryLower, "experience")
  \/ Includes(queryLower, "work")
  \/ Includes(queryLower, "job")
  \/ Includes(queryLower, "role")
  \/ Includes(queryLower, "position")
  \/ Len(companyMatches(cd, queryLower)) > 0
  \/ Includes(queryLower, "summarize")
  \/ Includes(queryLower, "tell me about")

impactText(exp) ==
  IF "impact" \in DOMAIN exp
  THEN " Impact: " \o Join([i \in 1..Len(exp.impact) |->
                              exp.impact[i].k \o ": " \o NumToStr(exp.impact[i].v)], ", ")
  ELSE ""

tagsText(exp) == IF "tags" \in DOMAIN exp THEN " Tags: " \o Join(exp.tags, ", ") ELSE ""

responsibilitiesText(exp) ==
  IF "responsibilities" \in DOMAIN exp THEN Join(exp.responsibilities, " ") ELSE ""

stackText(exp) == IF "stack" \in DOMAIN exp THEN Join(exp.stack, ", ") ELSE ""

ExperienceLine(exp) ==
  exp.role \o " at " \o exp.company \o " (" \o exp.period \o ")" \o tagsText(exp) \o ". "
    \o responsibilitiesText(exp) \o " Tech Stack: " \o stackText(exp) \o "." \o impactText(exp)

\* the project test without its 'app' keyword
includeProjects_noApp(queryLower) ==
  \/ Includes(queryLower, "project")
  \/ Includes(queryLower, "built")

includeProjects(queryLower) ==
  \/ Includes(queryLower, "project")
  \/ Includes(queryLower, "built")
  \/ Includes(queryLower, "app")

ProjectLine(app) ==
  "Project: " \o app.title \o " - " \o app.shortDescription \o ". Tech: "
    \o Join(app.tech, ", ") \o ". " \o Render(app, "myContribution")

includeEducation(queryLower) ==
  \/ Includes(queryLower, "education")
  \/ Includes(queryLower, "degree")
  \/ Includes(queryLower, "university")

\* edu.courses is dereferenced without a guard
EducationThrows(cd) == \E i \in 1..Len(cd.education) : "courses" \notin DOMAIN cd.education[i]

EducationLine(edu) ==
  "Education: " \o edu.degreeLevel \o " in " \o edu.program \o " from " \o edu.institution
    \o " (" \o edu.period \o "). Courses: " \o Join(edu.courses, ", ") \o "."

FallbackCap == 10

\* the array kept across calls instead of being created by each call
assembledContexts_shared(cd, query) ==
  LET queryLower == toLowerCase(query)
  IN  contexts \o AlwaysIncluded(cd)
        \o (IF includeExperience(cd, queryLower)
            THEN [i \in 1..Len(cd.experience) |-> ExperienceLine(cd.experience[i])]
            ELSE <<>>)
        \o (IF includeProjects(queryLower)
            THEN [i \in 1..Len(cd.apps) |-> ProjectLine(cd.apps[i])]
            ELSE <<>>)
        \o (IF includeEducation(queryLower)
            THEN [i \in 1..Len(cd.education) |-> EducationLine(cd.education[i])]
            ELSE <<>>)

\* the contexts array as it stands just before the return statement
assembledContexts(cd, query) ==
  LET queryLower == toLowerCase(query)
  IN  AlwaysIncluded(cd)
        \o (IF includeExperience(cd, queryLower)
            THEN [i \in 1..Len(cd.experience) |-> ExperienceLine(cd.experience[i])]
            ELSE <<>>)
        \o (IF includeProjects(queryLower)
            THEN [i \in 1..Len(cd.apps) |-> ProjectLine(cd.apps[i])]
            ELSE <<>>)
        \o (IF includeEducation(queryLower)
            THEN [i \in 1..Len(cd.education) |-> EducationLine(cd.education[i])]
            ELSE <<>>)

\* the selector returning the whole array, without slice(0, 10)
getFallbackContext_noCap(cd, query) ==
  IF includeEducation(toLowerCase(query)) /\ EducationThrows(cd)
  THEN Thrown(JoinOfUndefined)
  ELSE Returned(assembledContexts(cd, query))

\* outcome of one call: the returned array, or the TypeError it throws
getFallbackContext(cd, query) ==
  IF includeEducation(toLowerCase(query)) /\ EducationThrows(cd)
  THEN Thrown(JoinOfUndefined)
  ELSE Returned(SliceFirst(assembledContexts(cd, query), FallbackCap))

(***************************************************************************)
(* Queries.                                                                *)
(***************************************************************************)
QueryPrefixes == {"", "What did he do at ", "My app, his degree: "}

QueryTopics ==
  {"", "?!", "hello", "skills", "Experience", "net", "work", "job", "role", "Position",
   "SUMMARIZE it", "Tell me about him", "Acme Corp?", "ACME-CORP", "acme", "Acme Inc",
   "Globex", "co", "project", "built", "happy", "education", "University", "Degrees"}

Queries == {p \o t : p \in QueryPrefixes, t \in QueryTopics}

(***************************************************************************)
(* The Fallback Selector on its own: Init draws a content and a query,     *)
(* the one action calls the selector.                                      *)
(***************************************************************************)
ServiceIdle ==
  /\ env = [OPENAI_API_KEY |-> FALSE, PINECONE_API_KEY |-> "unset"]
  /\ pinecone = "null"
  /\ isInitialized = FALSE
  /\ conversationHistory = <<>>
  /\ searchResults = [received |-> FALSE, defined |-> FALSE, matches |-> <<>>]
  /\ contexts = <<>>
  /\ prompt = ""
  /\ completion = [received |-> FALSE, choices |-> <<>>]
  /\ console = <<>>
  /\ calls = [embedding |-> 0, index |-> 0, chat |-> 0]

InitFallback ==
  /\ contentData \in ContentData
  /\ userQuery \in Queries
  /\ pc = "idle"
  /\ result = NoResult
  /\ ServiceIdle
  /\ SelectorIdle
  /\ IngestIdle
  /\ ProcessorIdle
  /\ ChatIdle

CallFallback ==
  /\ pc = "idle"
  /\ result' = getFallbackContext(contentData, userQuery)
  /\ contexts' = IF getFallbackContext(contentData, userQuery).kind = "return"
                 THEN assembledContexts(contentData, userQuery)
                 ELSE <<>>
  /\ pc' = "done"
  /\ UNCHANGED <<env, contentData, pinecone, isInitialized, userQuery, conversationHistory,
                 searchResults, prompt, completion, console, calls>>
  /\ UNCHANGED outsideQuery

NextFallback == CallFallback

SpecFallback == InitFallback /\ [][NextFallback]_vars

FallbackReturned == pc = "done" /\ result.kind = "return"


(***************************************************************************)
(* Claims about the Fallback Selector (checked under SpecFallback).        *)
(***************************************************************************)
ExperienceKeywords ==
  {"experience", "work", "job", "role", "position", "summarize", "tell me about"}

QueryHasExperienceKeyword ==
  \E k \in ExperienceKeywords : Includes(toLowerCase(userQuery), k)

\* query and company name reduced to lower-case alphanumerics, compared both ways
QueryNamesCompany ==
  \E j \in 1..Len(contentData.experience) :
    LET c == stripNonAlnum(toLowerCase(contentData.experience[j].company))
        n == stripNonAlnum(toLowerCase(userQuery))
    IN  Includes(n, c) \/ Includes(c, n)

ExperienceTriggered == QueryHasExperienceKeyword \/ QueryNamesCompany

CompanyInResult(j) ==
  \E i \in 1..Len(result.value) :
    Includes(result.value[i], contentData.experience[j].company)

\* C7 as stated: a triggering query puts the company name of every configured
\* experience entry into the returned context list, however many entries
\* are configured.
C7_EveryCompanyInContext ==
  (FallbackReturned /\ ExperienceTriggered)
    => \A j \in 1..Len(contentData.experience) : CompanyInResult(j)

\* C7 amended: a triggering query puts the company names of the first six
\* configured experience entries (all of them when there are at most six)
\* into the returned context list; the entries after the sixth fall to the
\* cap of 10 strings, four of which are always taken.
C7_FirstSixCompaniesInContext ==
  (FallbackReturned /\ ExperienceTriggered)
    => \A j \in 1..Min(Len(contentData.experience), 6) : CompanyInResult(j)

C7_Witness ==
  /\ FallbackReturned
  /\ QueryNamesCompany
  /\ ~QueryHasExperienceKeyword
  /\ Len(contentData.experience) > 6
  /\ CompanyInResult(6)

ExperienceEntryInResult ==
  \E i \in 1..Len(result.value), j \in 1..Len(contentData.experience) :
    result.value[i] = ExperienceLine(contentData.experience[j])

\* C8: the selector's result holds experience entries exactly when the
\* lower-cased query contains one of the seven keywords or the query and some
\* company name, both reduced to lower-case alphanumerics, contain one
\* another; a query with none of these gets no experience entry, and a
\* triggering query gets the first configured entry whenever there is one.
C8_ExperienceTrigger ==
  FallbackReturned =>
    /\ ExperienceEntryInResult
         <=> (ExperienceTriggered /\ Len(contentData.experience) > 0)
    /\ (ExperienceTriggered /\ Len(contentData.experience) > 0)
         => result.value[5] = ExperienceLine(contentData.experience[1])

C8_Witness ==
  /\ FallbackReturned
  /\ userQuery = "acme"
  /\ ~QueryHasExperienceKeyword
  /\ ExperienceEntryInResult

CategoryLine(i) ==
  contentData.about.skills[i].category \o ": "
    \o Join(contentData.about.skills[i].skills, ", ")

AnyGroupTriggered ==
  \/ ExperienceTriggered
  \/ \E k \in {"project", "built", "app", "education", "degree", "university"} :
       Includes(toLowerCase(userQuery), k)

\* C9 as stated: the result begins with the bio, a contact line and then one
\* separate string per skill category, 2 + (number of categories) strings
\* being always included.
C9_OneLinePerCategory ==
  FallbackReturned =>
    LET r == result.value
        n == Len(contentData.about.skills)
    IN  /\ Len(r) >= 2 + n
        /\ Includes(r[1], contentData.about.bio)
        /\ Includes(r[2], contentData.about.contact.email)
        /\ \A i \in 1..n : r[2 + i] = CategoryLine(i)
        /\ ~AnyGroupTriggered => Len(r) = 2 + n

\* C9 amended: the result begins with four strings whatever the number of
\* skill categories: the bio, a contact line (email and phone), a links line
\* (LinkedIn and GitHub) and ONE "Skills: " string that holds every
\* category's "category: comma-joined skills" segment, joined by ". ".
C9_FourAlwaysIncluded ==
  FallbackReturned =>
    LET r == result.value
        n == Len(contentData.about.skills)
    IN  /\ Len(r) >= 4
        /\ r[1] = "About Harishraj: " \o contentData.about.bio
        /\ Includes(r[2], "Email: " \o contentData.about.contact.email)
        /\ SubSeq(r[2], 1, 9) = "Contact: "
        /\ r[3] = "LinkedIn: " \o contentData.about.contact.linkedin
                    \o ", GitHub: " \o contentData.about.contact.github
        /\ r[4] = "Skills: " \o Join([i \in 1..n |-> CategoryLine(i)], ". ")
        /\ ~AnyGroupTriggered => Len(r) = 4

C9_Witness ==
  /\ FallbackReturned
  /\ Len(contentData.about.skills) >= 2
  /\ ~AnyGroupTriggered
  /\ Len(result.value) = 4

\* the list "about/contact/skills, then experience, then projects, then
\* education" with each conditional group present in full or absent
OrderedAssembly(withExp, withApps, withEdu) ==
  <<"About Harishraj: " \o contentData.about.bio, ContactLine(contentData),
    LinksLine(contentData), "Skills: " \o skillsText(contentData)>>
    \o (IF withExp
        THEN [i \in 1..Len(contentData.experience) |->
                ExperienceLine(contentData.experience[i])]
        ELSE <<>>)
    \o (IF withApps
        THEN [i \in 1..Len(contentData.apps) |-> ProjectLine(contentData.apps[i])]
        ELSE <<>>)
    \o (IF withEdu
        THEN [i \in 1..Len(contentData.education) |->
                EducationLine(contentData.education[i])]
        ELSE <<>>)

IsFirstTenOf(r, full) ==
  /\ Len(r) = Min(10, Len(full))
  /\ \A i \in 1..Len(r) : r[i] = full[i]

ProjectKeywords == {"project", "built", "app"}

EducationKeywords == {"education", "degree", "university"}

ProjectTriggered == \E k \in ProjectKeywords : Includes(toLowerCase(userQuery), k)

EducationTriggered == \E k \in EducationKeywords : Includes(toLowerCase(userQuery), k)

startsWith(s, p) == Len(s) >= Len(p) /\ SubSeq(s, 1, Len(p)) = p

\* the positions of the assembled array holding a line with the given opening
LinesOpening(p) == {k \in 1..Len(contexts) : startsWith(contexts[k], p)}

\* C11: before truncation, the assembled array holds a line for every project exactly when
\* the lower-cased query contains 'project', 'built' or 'app', and a line for every education
\* entry exactly when it contains 'education', 'degree' or 'university'; a group is there in
\* full, in the entries' order, or not at all, and either group is decided on its own.
C11_ProjectEducationTriggers ==
  FallbackReturned =>
    LET projects == LinesOpening("Project: ")
        education == LinesOpening("Education: ")
        base == 4 + (IF ExperienceTriggered THEN Len(contentData.experience) ELSE 0)
    IN  /\ projects = (IF ProjectTriggered
                       THEN (base + 1)..(base + Len(contentData.apps)) ELSE {})
        /\ \A k \in projects : contexts[k] = ProjectLine(contentData.apps[k - base])
        /\ education = (IF EducationTriggered
                        THEN (base + Cardinality(projects) + 1)
                               ..(base + Cardinality(projects) + Len(contentData.education))
                        ELSE {})
        /\ \A k \in education :
             contexts[k] = EducationLine(contentData.education[k - base - Cardinality(projects)])
        /\ Len(contexts) = base + Cardinality(projects) + Cardinality(education)

\* 'happy' contains 'app': both projects are listed, and no education entry is
C11_Witness ==
  /\ FallbackReturned
  /\ userQuery = "happy"
  /\ Len(contentData.apps) = 2
  /\ Len(contentData.education) = 2
  /\ Cardinality(LinesOpening("Project: ")) = 2
  /\ LinesOpening("Education: ") = {}

(***************************************************************************)
(* RAGService.buildPrompt                                                  *)
(***************************************************************************)
HistoryWindow == 6

PromptPreamble ==
  "You are an AI assistant that represents Harishraj Udaya Bhaskar, an AI Software Engineer. "
    \o "Your role is to help recruiters and visitors learn about his background, skills, and experience.\n"
    \o "\nIMPORTANT GUIDELINES:\n"
    \o "- Be conversational, friendly, and professional\n"
    \o "- Answer only based on the provided context\n"
    \o "- If you don't have information, politely say so and suggest they contact him directly\n"
    \o "- Keep responses concise (2-3 paragraphs max) unless asked for details\n"
    \o "- Use first-person perspective when discussing Harishraj (e.g., \"I have experience in...\")\n"
    \o "- Highlight his AI/ML expertise, recent projects, and impact metrics\n"
    \o "- Be enthusiastic about his work but remain humble\n"
    \o "\nCONTEXT ABOUT HARISHRAJ:\n"

historyLine(msg) == (IF msg.role = "user" THEN "User" ELSE "Assistant") \o ": " \o msg.content

\* the window taken from the start of the history: slice(0, 6)
historyText_firstSix(history) ==
  IF Len(history) > 0
  THEN LET recentHistory == SliceFirst(history, HistoryWindow)
       IN  Join([i \in 1..Len(recentHistory) |-> historyLine(recentHistory[i])], "\n")
  ELSE ""

historyText(history) ==
  IF Len(history) > 0
  THEN LET recentHistory == SliceLast(history, HistoryWindow)
       IN  Join([i \in 1..Len(recentHistory) |-> historyLine(recentHistory[i])], "\n")
  ELSE ""

buildPrompt(query, ctxs, history) ==
  PromptPreamble
    \o Join(ctxs, "\n\n")
    \o "\n\n"
    \o (IF historyText(history) # ""
        THEN "CONVERSATION HISTORY:\n" \o historyText(history) \o "\n"
        ELSE "")
    \o "\nUSER QUESTION: " \o query
    \o "\n\nPlease provide a helpful, accurate response based on the context above:"

(***************************************************************************)
(* Inputs of the orchestrator: environments, histories, backend replies.   *)
(***************************************************************************)
Environments == [OPENAI_API_KEY : BOOLEAN, PINECONE_API_KEY : {"unset", "set"}]

\* the contents the orchestrator is run on
ServiceContents ==
  {Content(e, 1, d, 1, TRUE) : e \in {1, MaxExp}, d \in {1, MaxEdu}}

ServiceQueries == {"", "hello", "Acme Corp?", "education", "My app, his degree: work"}

Turn(i) ==
  IF i % 2 = 1 THEN [role |-> "user", content |-> "q" \o NumToStr(i)]
  ELSE [role |-> "assistant", content |-> "a" \o NumToStr(i)]

Histories == {[i \in 1..n |-> Turn(i)] : n \in {0, 1, MaxHistory}}

\* errors the OpenAI client raises (embeddings and chat completions)
OpenAIErrors ==
  {Error("401 Incorrect API key provided: sk-x."),
   Error("401 Invalid Authentication"),
   Error("429 Rate limit reached")}

\* errors the Pinecone client raises on index.query
PineconeErrors ==
  {Error("HTTP status 404"),
   Error("The API key you provided was rejected"),
   Error("Request timed out")}

\* one match of an index response; metadata and metadata.text are optional
Matches ==
  {[id |-> "m0"],
   [id |-> "m1", metadata |-> [source |-> "about"]],
   [id |-> "m2", metadata |-> [source |-> "about", text |-> ""]],
   [id |-> "m3", metadata |-> [source |-> "doc", text |-> "Chunk A."]],
   [id |-> "m4", metadata |-> [source |-> "doc", text |-> "Chunk B."]]}

MatchLists == UNION {[1..n -> Matches] : n \in 0..MaxMatches}

NoSearch == [received |-> FALSE, defined |-> FALSE, matches |-> <<>>]

\* index responses: the matches property may be undefined
SearchResponses ==
  {[received |-> TRUE, defined |-> FALSE, matches |-> <<>>]}
    \cup {[received |-> TRUE, defined |-> TRUE, matches |-> m] : m \in MatchLists}

NoCompletion == [received |-> FALSE, choices |-> <<>>]

\* completion responses: no choice at all, a null content, an empty content, a text
Completions ==
  {[received |-> TRUE, choices |-> c] :
     c \in {<<>>,
            <<[message |-> [role |-> "assistant"]]>>,
            <<[message |-> [role |-> "assistant", content |-> ""]]>>,
            <<[message |-> [role |-> "assistant", content |-> "I build RAG systems."]]>>}}

NoError == [name |-> "", message |-> ""]

Log(text) == [text |-> text, error |-> NoError]

LogError(text, e) == [text |-> text, error |-> e]

NoCalls == [embedding |-> 0, index |-> 0, chat |-> 0]

NotConfiguredReply ==
  "I'm currently not configured properly. Please set up the OpenAI API key to enable the chatbot. "
    \o "In the meantime, feel free to explore the portfolio or reach out directly at uharishraj@gmail.com!"

TroubleConnectingReply ==
  "I'm having trouble connecting to my AI backend. Please make sure the API keys are configured correctly. "
    \o "You can still reach out directly at uharishraj@gmail.com!"

NoResponseReply == "Sorry, I could not generate a response."


(***************************************************************************)
(* RAGService.initialize, searchVectorStore and query, cut at each await   *)
(* of a backend call.                                                      *)
(***************************************************************************)
PineconeConfigError == Error("The client configuration had type errors")

IndexNotFoundLog ==
  "Pinecone index not found, using fallback context. "
    \o "Create the index or remove PINECONE_API_KEY to use fallback mode."

\* initialize(): the client it leaves in this.pinecone and what it logs;
\* ctorThrows: the Pinecone constructor rejects its configuration
initialize(ctorThrows) ==
  IF isInitialized THEN [pinecone |-> pinecone, console |-> <<>>]
  ELSE IF env.PINECONE_API_KEY = "set" THEN
    IF ctorThrows
    THEN [pinecone |-> pinecone,
          console |-> <<LogError("Error initializing RAG service:", PineconeConfigError)>>]
    ELSE [pinecone |-> "client",
          console |-> <<Log("RAG service initialized with Pinecone")>>]
  ELSE [pinecone |-> pinecone,
        console |-> <<Log("RAG service initialized in fallback mode (no Pinecone)")>>]

\* the guard reading the wrong environment variable
credentialMissing_wrongKey(environment) == environment.PINECONE_API_KEY = "unset"

\* query(): if (!process.env.OPENAI_API_KEY) return ...
credentialMissing(environment) == ~environment.OPENAI_API_KEY

\* the handler matching the HTTP status instead of the "API key" text
classify_byStatus(e) ==
  IF Includes(e.message, "401") THEN Returned(TroubleConnectingReply) ELSE Thrown(e)

\* query(): the catch block's verdict on an error
classify(e) ==
  IF Includes(e.message, "API key") THEN Returned(TroubleConnectingReply) ELSE Thrown(e)

\* query(): catch (error) { ... }
Caught(e, logs, c) ==
  /\ console' = Append(logs, LogError("Error in RAG query:", e))
  /\ result' = classify(e)
  /\ pc' = "done"
  /\ calls' = c
  /\ contexts' = <<>>
  /\ prompt' = ""

\* query(): from the return of searchVectorStore to the completion request
Retrieved(q, h, outcome, logs, c) ==
  IF outcome.kind = "throw"
  THEN Caught(outcome.value, logs, c)
  ELSE /\ contexts' = outcome.value
       /\ prompt' = buildPrompt(q, outcome.value, h)
       /\ calls' = [c EXCEPT !.chat = @ + 1]
       /\ pc' = "awaitCompletion"
       /\ console' = logs
       /\ result' = NoResult

\* the filter testing match.metadata only
vectorContexts_keepEmpty(sr) ==
  LET usable(m) == "metadata" \in DOMAIN m /\ "text" \in DOMAIN m.metadata
      RECURSIVE texts(_)
      texts(i) ==
        IF i > Len(sr.matches) THEN <<>>
        ELSE (IF usable(sr.matches[i]) THEN <<sr.matches[i].metadata.text>> ELSE <<>>)
               \o texts(i + 1)
  IN  IF sr.defined THEN texts(1) ELSE <<>>

\* searchVectorStore(): the text of the matches that carry one
vectorContexts(sr) ==
  LET usable(m) == /\ "metadata" \in DOMAIN m
                   /\ "text" \in DOMAIN m.metadata
                   /\ m.metadata.text # ""
      RECURSIVE texts(_)
      texts(i) ==
        IF i > Len(sr.matches) THEN <<>>
        ELSE (IF usable(sr.matches[i]) THEN <<sr.matches[i].metadata.text>> ELSE <<>>)
               \o texts(i + 1)
  IN  IF sr.defined THEN texts(1) ELSE <<>>

\* a catch block that asks for the embedding once more before falling back
searchCatch_retry(e, logs) ==
  IF calls.embedding < 2
  THEN /\ calls' = [calls EXCEPT !.embedding = @ + 1]
       /\ pc' = "awaitEmbedding"
       /\ console' = Append(logs, LogError("Error searching vector store:", e))
       /\ result' = NoResult
       /\ contexts' = <<>>
       /\ prompt' = ""
  ELSE Retrieved(userQuery, conversationHistory,
                 getFallbackContext(contentData, userQuery),
                 Append(logs, LogError("Error searching vector store:", e)),
                 calls)

\* searchVectorStore(): catch (error) { ... return this.getFallbackContext(query) }
searchCatch(e, logs) ==
  Retrieved(userQuery, conversationHistory,
            getFallbackContext(contentData, userQuery),
            Append(logs,
                   IF Includes(e.message, "404")
                   THEN Log(IndexNotFoundLog)
                   ELSE LogError("Error searching vector store:", e)),
            calls)

\* the response without the || default
chatResponse_noDefault(cmp) ==
  IF Len(cmp.choices) > 0 /\ "content" \in DOMAIN cmp.choices[1].message
  THEN cmp.choices[1].message.content
  ELSE ""

\* query(): completion.choices[0]?.message?.content || 'Sorry, ...'
chatResponse(cmp) ==
  IF /\ Len(cmp.choices) > 0
     /\ "content" \in DOMAIN cmp.choices[1].message
     /\ cmp.choices[1].message.content # ""
  THEN cmp.choices[1].message.content
  ELSE NoResponseReply

\* query() is called and runs to its first pending backend call
QueryCall(q, h, ctorThrows) ==
  /\ pc = "idle"
  /\ LET init == initialize(ctorThrows)
     IN  /\ pinecone' = init.pinecone
         /\ isInitialized' = TRUE
         /\ userQuery' = q
         /\ conversationHistory' = h
         /\ searchResults' = NoSearch
         /\ completion' = NoCompletion
         /\ IF credentialMissing(env) THEN
              /\ result' = Returned(NotConfiguredReply)
              /\ pc' = "done"
              /\ console' = init.console
              /\ calls' = NoCalls
              /\ contexts' = <<>>
              /\ prompt' = ""
            ELSE IF init.pinecone = "null" THEN
              Retrieved(q, h, getFallbackContext(contentData, q),
                        Append(init.console,
                               Log("Pinecone not available, using fallback context")),
                        NoCalls)
            ELSE
              /\ calls' = [NoCalls EXCEPT !.embedding = 1]
              /\ pc' = "awaitEmbedding"
              /\ console' = init.console
              /\ result' = NoResult
              /\ contexts' = <<>>
              /\ prompt' = ""
  /\ UNCHANGED <<env, contentData>>
  /\ UNCHANGED outsideQuery

\* openai.embeddings.create resolves; index.query is issued
EmbeddingResolved ==
  /\ pc = "awaitEmbedding"
  /\ calls' = [calls EXCEPT !.index = @ + 1]
  /\ pc' = "awaitIndex"
  /\ UNCHANGED <<env, contentData, pinecone, isInitialized, userQuery, conversationHistory,
                 searchResults, contexts, prompt, completion, result, console>>
  /\ UNCHANGED outsideQuery

\* openai.embeddings.create rejects; createEmbedding logs and throws its own error
EmbeddingRejected(e) ==
  /\ pc = "awaitEmbedding"
  /\ searchCatch(Error("Failed to create embedding"),
                 Append(console, LogError("Error creating embedding:", e)))
  /\ UNCHANGED <<env, contentData, pinecone, isInitialized, userQuery, conversationHistory,
                 searchResults, completion>>
  /\ UNCHANGED outsideQuery

\* index.query resolves
IndexResolved(sr) ==
  /\ pc = "awaitIndex"
  /\ searchResults' = sr
  /\ Retrieved(userQuery, conversationHistory, Returned(vectorContexts(sr)), console, calls)
  /\ UNCHANGED <<env, contentData, pinecone, isInitialized, userQuery, conversationHistory,
                 completion>>
  /\ UNCHANGED outsideQuery

\* index.query rejects
IndexRejected(e) ==
  /\ pc = "awaitIndex"
  /\ searchCatch(e, console)
  /\ UNCHANGED <<env, contentData, pinecone, isInitialized, userQuery, conversationHistory,
                 searchResults, completion>>
  /\ UNCHANGED outsideQuery

\* openai.chat.completions.create resolves
CompletionResolved(cmp) ==
  /\ pc = "awaitCompletion"
  /\ completion' = cmp
  /\ result' = Returned(chatResponse(cmp))
  /\ pc' = "done"
  /\ searchResults' = NoSearch
  /\ contexts' = <<>>
  /\ prompt' = ""
  /\ UNCHANGED <<env, contentData, pinecone, isInitialized, userQuery, conversationHistory,
                 console, calls>>
  /\ UNCHANGED outsideQuery

\* openai.chat.completions.create rejects
CompletionRejected(e) ==
  /\ pc = "awaitCompletion"
  /\ Caught(e, console, calls)
  /\ searchResults' = NoSearch
  /\ UNCHANGED <<env, contentData, pinecone, isInitialized, userQuery, conversationHistory,
                 completion>>
  /\ UNCHANGED outsideQuery

\* the caller has taken the outcome; the service waits for the next query
QueryFinished ==
  /\ pc = "done"
  /\ pc' = "idle"
  /\ userQuery' = ""
  /\ conversationHistory' = <<>>
  /\ searchResults' = NoSearch
  /\ completion' = NoCompletion
  /\ contexts' = <<>>
  /\ prompt' = ""
  /\ result' = NoResult
  /\ console' = <<>>
  /\ calls' = NoCalls
  /\ UNCHANGED <<env, contentData, pinecone, isInitialized>>
  /\ UNCHANGED outsideQuery

Init ==
  /\ env \in Environments
  /\ contentData \in ServiceContents
  /\ pinecone = "null"
  /\ isInitialized = FALSE
  /\ pc = "idle"
  /\ userQuery = ""
  /\ conversationHistory = <<>>
  /\ searchResults = NoSearch
  /\ contexts = <<>>
  /\ prompt = ""
  /\ completion = NoCompletion
  /\ result = NoResult
  /\ console = <<>>
  /\ calls = NoCalls
  /\ SelectorIdle
  /\ IngestIdle
  /\ ProcessorIdle
  /\ ChatIdle

Next ==
  \/ \E q \in ServiceQueries, h \in Histories, t \in BOOLEAN : QueryCall(q, h, t)
  \/ EmbeddingResolved
  \/ \E e \in OpenAIErrors : EmbeddingRejected(e)
  \/ \E sr \in SearchResponses : IndexResolved(sr)
  \/ \E e \in PineconeErrors : IndexRejected(e)
  \/ \E cmp \in Completions : CompletionResolved(cmp)
  \/ \E e \in OpenAIErrors : CompletionRejected(e)
  \/ QueryFinished

Spec == Init /\ [][Next]_vars


(***************************************************************************)
(* Claims about the orchestrator (checked under Spec).                     *)
(***************************************************************************)
LoggedTexts == {console[i].text : i \in 1..Len(console)}

\* the errors console.error recorded under the given messages
LoggedErrors(texts) == {console[i].error : i \in {k \in 1..Len(console) : console[k].text \in texts}}

\* C1: with no OPENAI_API_KEY the invocation issues no embedding, index or
\* completion request and ends by returning the fixed "not configured
\* properly" text, whatever the query and the history.
C1_CredentialGuard ==
  ~env.OPENAI_API_KEY =>
    /\ calls = [embedding |-> 0, index |-> 0, chat |-> 0]
    /\ pc \in {"idle", "done"}
    /\ pc = "done" =>
         /\ result.kind = "return"
         /\ Includes(result.value, "not configured properly")
         /\ result.value = NotConfiguredReply

C1_Witness ==
  /\ pc = "done"
  /\ ~env.OPENAI_API_KEY
  /\ pinecone = "client"
  /\ userQuery = "Acme Corp?"
  /\ Len(conversationHistory) > 0
  /\ result.value = NotConfiguredReply

\* C2 as stated: the context of the composed prompt is the Fallback
\* Selector's output whenever vector search supplied no context string
\* (no backend, an error, or no usable match), and otherwise exactly the
\* vector search result.
C2_ExactlyOneSource ==
  pc = "awaitCompletion" =>
    IF searchResults.received /\ vectorContexts(searchResults) # <<>>
    THEN contexts = vectorContexts(searchResults)
    ELSE LET fallback == getFallbackContext(contentData, userQuery)
         IN  fallback.kind = "return" => contexts = fallback.value

RetrievalFailed ==
  \/ "Error searching vector store:" \in LoggedTexts
  \/ IndexNotFoundLog \in LoggedTexts

RetrievalErrors ==
  LoggedErrors({"Error creating embedding:", "Error searching vector store:"})

\* C3 as stated: when the embedding call or the index search fails in an
\* invocation that has the credential, the invocation still issues the
\* completion request, and what it throws, if anything, is not the
\* retrieval error.
C3_RetrievalNeverAborts ==
  (pc = "done" /\ env.OPENAI_API_KEY /\ RetrievalFailed) =>
    /\ calls.chat = 1
    /\ result.kind = "throw" => result.value \notin RetrievalErrors

MentionsCredential(e) == Includes(e.message, "API key")

\* the exceptions raised during retrieve, compose and generate, in the order raised
RaisedInSteps ==
  SelectSeq(console,
            LAMBDA l : l.text \in {"Error creating embedding:",
                                   "Error searching vector store:",
                                   "Error in RAG query:"})

\* C4 as stated: every exception raised during retrieve, compose or
\* generate is classified: when the invocation ends after an exception, the
\* latest one decides, query() returning the fixed "trouble connecting" text
\* if it mentions a credential problem and throwing otherwise, so that
\* query() returns no string for a non-credential failure.
C4_EveryExceptionClassified ==
  (pc = "done" /\ Len(RaisedInSteps) > 0) =>
    LET latest == RaisedInSteps[Len(RaisedInSteps)].error
    IN  IF MentionsCredential(latest)
        THEN result = Returned(TroubleConnectingReply)
        ELSE result.kind = "throw"

CaughtByQuery == LoggedErrors({"Error in RAG query:"})

\* C4 amended: embedding and index errors are absorbed inside retrieval and
\* never classified; every exception that reaches query()'s handler (from
\* the Fallback Selector or the completion call) is classified once: if its
\* message contains "API key", query() returns the fixed "trouble
\* connecting" text, otherwise query() rethrows that same exception; query()
\* returns a string for no exception that reached the handler without that
\* signature.
C4_CaughtExceptionClassified ==
  pc = "done" =>
    /\ Cardinality({i \in 1..Len(console) : console[i].text = "Error in RAG query:"}) <= 1
    /\ \A e \in CaughtByQuery :
         IF MentionsCredential(e)
         THEN /\ result.kind = "return"
              /\ Includes(result.value, "trouble connecting")
              /\ result.value = TroubleConnectingReply
         ELSE result = Thrown(e)
    /\ CaughtByQuery = {} => result.kind = "return"

C4_Witness ==
  /\ pc = "done"
  /\ calls.chat = 1
  /\ \E e \in CaughtByQuery : MentionsCredential(e)
  /\ result = Returned(TroubleConnectingReply)

\* C5 as stated: with the credential set and no vector backend configured,
\* an invocation for a non-empty query engages the Fallback Selector, issues
\* the completion request and, when that request is answered, returns a
\* non-empty string.
C5_DegradePath ==
  (/\ pc = "done"
   /\ env.OPENAI_API_KEY
   /\ env.PINECONE_API_KEY = "unset"
   /\ userQuery # "") =>
    /\ "Pinecone not available, using fallback context" \in LoggedTexts
    /\ calls.chat = 1
    /\ completion.received => (result.kind = "return" /\ result.value # "")

BackendHasText ==
  /\ Len(completion.choices) > 0
  /\ "content" \in DOMAIN completion.choices[1].message

\* C6 as stated: once the completion request is answered, query() returns
\* the backend's text unchanged, an empty text included.
C6_VerbatimAlways ==
  (pc = "done" /\ completion.received /\ BackendHasText) =>
    result = Returned(completion.choices[1].message.content)

\* C6 amended: once the completion request is answered, query() returns the
\* backend's text unchanged when that text is non-empty, and the fixed text
\* "Sorry, I could not generate a response." when the text is empty or
\* missing.
C6_VerbatimUnlessEmpty ==
  (pc = "done" /\ completion.received) =>
    /\ result.kind = "return"
    /\ IF BackendHasText /\ completion.choices[1].message.content # ""
       THEN result.value = completion.choices[1].message.content
       ELSE result.value = "Sorry, I could not generate a response."

C6_Witness ==
  /\ pc = "done"
  /\ completion.received
  /\ BackendHasText
  /\ completion.choices[1].message.content = "I build RAG systems."
  /\ result = Returned("I build RAG systems.")

(***************************************************************************)
(* The Fallback Selector called again and again on one service: Init draws *)
(* the content, every step calls the selector with some query and records  *)
(* the query and the outcome.                                              *)
(***************************************************************************)
InitSelector ==
  /\ contentData \in ServiceContents
  /\ userQuery = ""
  /\ pc = "idle"
  /\ result = NoResult
  /\ ServiceIdle
  /\ SelectorIdle
  /\ IngestIdle
  /\ ProcessorIdle
  /\ ChatIdle

Select(q) ==
  /\ Len(selections) < MaxCalls
  /\ userQuery' = q
  /\ result' = getFallbackContext(contentData, q)
  /\ contexts' = IF getFallbackContext(contentData, q).kind = "return"
                 THEN assembledContexts(contentData, q)
                 ELSE <<>>
  /\ selections' = Append(selections, [query |-> q, outcome |-> getFallbackContext(contentData, q)])
  /\ UNCHANGED <<env, contentData, pinecone, isInitialized, pc, conversationHistory,
                 searchResults, prompt, completion, console, calls>>
  /\ UNCHANGED <<ingestVars, processorVars, chatVars>>

NextSelector == \E q \in ServiceQueries : Select(q)

SpecSelector == InitSelector /\ [][NextSelector]_vars

topK == 5

TopKResponses ==
  {[received |-> TRUE, defined |-> FALSE, matches |-> <<>>]}
    \cup {[received |-> TRUE, defined |-> TRUE, matches |-> m] :
            m \in UNION {[1..n -> Matches] : n \in 0..topK}}

InitSearch ==
  /\ env = [OPENAI_API_KEY |-> TRUE, PINECONE_API_KEY |-> "set"]
  /\ contentData = Content(1, 1, 1, 1, TRUE)
  /\ pinecone = "null"
  /\ isInitialized = FALSE
  /\ pc = "idle"
  /\ userQuery = ""
  /\ conversationHistory = <<>>
  /\ searchResults = NoSearch
  /\ contexts = <<>>
  /\ prompt = ""
  /\ completion = NoCompletion
  /\ result = NoResult
  /\ console = <<>>
  /\ calls = NoCalls
  /\ SelectorIdle
  /\ IngestIdle
  /\ ProcessorIdle
  /\ ChatIdle

NextSearch ==
  \/ QueryCall("hello", <<>>, FALSE)
  \/ EmbeddingResolved
  \/ \E sr \in TopKResponses : IndexResolved(sr)

SpecSearch == InitSearch /\ [][NextSearch]_vars

SearchReturned == pc = "awaitCompletion" /\ searchResults.received

\* the positions of the response whose match has metadata with a non-empty text
UsableMatches ==
  {i \in 1..Len(searchResults.matches) :
     /\ "metadata" \in DOMAIN searchResults.matches[i]
     /\ "text" \in DOMAIN searchResults.matches[i].metadata
     /\ searchResults.matches[i].metadata.text # ""}

\* the k-th usable position, counting in the backend's order
NthUsable(k) == CHOOSE i \in UsableMatches : Cardinality({j \in UsableMatches : j <= i}) = k

\* C13: when the index answers, searchVectorStore returns at most topK (5) strings: the
\* text of every match that has metadata with a non-empty text, in the order of the
\* response; matches without metadata or with an empty text are left out, and nothing is
\* logged as an error.
C13_VectorQueryResult ==
  SearchReturned =>
    /\ Len(contexts) <= topK
    /\ Len(contexts) = Cardinality(UsableMatches)
    /\ \A k \in 1..Len(contexts) :
         contexts[k] = searchResults.matches[NthUsable(k)].metadata.text
    /\ \A k \in 1..Len(console) : console[k].error = NoError
    /\ calls.index = 1

\* five matches: no metadata, chunk B, empty text, chunk A, metadata without text
C13_Witness ==
  /\ SearchReturned
  /\ Len(searchResults.matches) = topK
  /\ [i \in 1..topK |-> searchResults.matches[i].id] = <<"m0", "m4", "m2", "m3", "m1">>
  /\ contexts = <<"Chunk B.", "Chunk A.">>

(***************************************************************************)
(* The prompt of an invocation that reached the completion request.        *)
(***************************************************************************)
PromptComposed == pc = "awaitCompletion"

endsWith(s, t) == Len(s) >= Len(t) /\ SubSeq(s, Len(s) - Len(t) + 1, Len(s)) = t

\* the turn as the line 'User: ...' or 'Assistant: ...', closed by a line feed
TurnLine(msg) ==
  IF msg.role = "user" THEN "User: " \o msg.content \o "\n"
  ELSE "Assistant: " \o msg.content \o "\n"

\* the lines of turns from..Len(conversationHistory), one after the other
RECURSIVE TurnLines(_)
TurnLines(from) ==
  IF from > Len(conversationHistory) THEN ""
  ELSE TurnLine(conversationHistory[from]) \o TurnLines(from + 1)

HistoryBlock ==
  IF conversationHistory = <<>> THEN ""
  ELSE "CONVERSATION HISTORY:\n" \o TurnLines(Max(1, Len(conversationHistory) - 5))

QuestionBlock ==
  "\nUSER QUESTION: " \o userQuery
    \o "\n\nPlease provide a helpful, accurate response based on the context above:"

ContextBlock == "CONTEXT ABOUT HARISHRAJ:\n" \o Join(contexts, "\n\n") \o "\n\n"

EmbeddingFailures == {k \in 1..Len(console) : console[k].text = "Error creating embedding:"}

\* C15: one invocation of query() issues at most one embedding request, at most one index
\* query and at most one completion request, whether they succeed or fail; an embedding
\* that fails has been requested exactly once, fails once, and is followed by no index query.
C15_NoRetries ==
  /\ calls.embedding <= 1
  /\ calls.index <= 1
  /\ calls.chat <= 1
  /\ Cardinality(EmbeddingFailures) <= 1
  /\ EmbeddingFailures # {} => calls.embedding = 1 /\ calls.index = 0

\* the embedding failed, the completion failed too: one request each, none repeated
C15_Witness ==
  /\ pc = "done"
  /\ EmbeddingFailures # {}
  /\ "Error in RAG query:" \in LoggedTexts
  /\ calls = [embedding |-> 1, index |-> 0, chat |-> 1]

(***************************************************************************)
(* RAGService.ingestDocuments.  A run is cut at its awaits: the embedding  *)
(* requests of one batch are all issued by batch.map before the first      *)
(* reply; Promise.all settles when every reply has resolved or as soon as  *)
(* one rejects, while the replies still outstanding arrive later and are   *)
(* dropped.  The embedding values are left out of the records.             *)
(***************************************************************************)
batchSize == 100

Doc(d) == [text |-> "Document " \o NumToStr(d), metadata |-> [source |-> "notes.txt"]]

Documents(n) == [d \in 1..n |-> Doc(d)]

\* documents.slice(i, i + batchSize) holds the documents i+1 .. BatchEnd, counted from 1;
\* the variant is slice(i)
BatchEnd_toEnd(documents, i) == Len(documents)

BatchEnd(documents, i) == Min(i + batchSize, Len(documents))

PendingReply == [status |-> "pending", id |-> ""]

\* `doc-${i + idx}-${Date.now()}`
RecordId(position, t) == "doc-" \o NumToStr(position) \o "-" \o NumToStr(t)

\* { id, values, metadata: { text: doc.text, ...doc.metadata } }
Vector(doc, id) == [id |-> id, metadata |-> doc.metadata @@ [text |-> doc.text]]

NoPineconeError == Error("Pinecone is not initialized. Please provide PINECONE_API_KEY.")

EmbeddingError == Error("Failed to create embedding")

\* the loop body up to Promise.all: one embedding request per document of the batch
StartBatch(run, i) ==
  [run EXCEPT !.i = i,
              !.pc = "embedding",
              !.replies = [d \in (i + 1)..BatchEnd(run.documents, i) |-> PendingReply],
              !.requested = BatchEnd(run.documents, i)]

\* the vectors array handed to index.upsert
BatchVectors(run) ==
  [k \in 1..(BatchEnd(run.documents, run.i) - run.i) |->
     Vector(run.documents[run.i + k], run.replies[run.i + k].id)]

Ceil(a, b) == (a + b - 1) \div b

\* the call without the test of this.pinecone
IngestCall_noGuard(documents) ==
  /\ Len(runs) < MaxRuns
  /\ LET init == initialize(FALSE)
         run == [documents |-> documents, i |-> 0, pc |-> "done", requested |-> 0,
                 replies |-> <<>>, result |-> NoResult]
     IN  /\ pinecone' = init.pinecone
         /\ isInitialized' = TRUE
         /\ IF documents = <<>> THEN
              /\ runs' = Append(runs, [run EXCEPT !.result = Returned("undefined")])
              /\ console' = console \o init.console
                              \o <<Log("Successfully ingested 0 documents")>>
            ELSE
              /\ runs' = Append(runs, StartBatch(run, 0))
              /\ console' = console \o init.console
  /\ UNCHANGED <<env, contentData, pc, userQuery, conversationHistory, searchResults, contexts,
                 prompt, completion, result, calls>>
  /\ UNCHANGED <<selections, upserts, now, processorVars, chatVars>>

IngestCall(documents) ==
  /\ Len(runs) < MaxRuns
  /\ LET init == initialize(FALSE)
         run == [documents |-> documents, i |-> 0, pc |-> "done", requested |-> 0,
                 replies |-> <<>>, result |-> NoResult]
     IN  /\ pinecone' = init.pinecone
         /\ isInitialized' = TRUE
         /\ IF init.pinecone = "null" THEN
              /\ runs' = Append(runs, [run EXCEPT !.result = Thrown(NoPineconeError)])
              /\ console' = console \o init.console
            ELSE IF documents = <<>> THEN
              /\ runs' = Append(runs, [run EXCEPT !.result = Returned("undefined")])
              /\ console' = console \o init.console
                              \o <<Log("Successfully ingested 0 documents")>>
            ELSE
              /\ runs' = Append(runs, StartBatch(run, 0))
              /\ console' = console \o init.console
  /\ UNCHANGED <<env, contentData, pc, userQuery, conversationHistory, searchResults, contexts,
                 prompt, completion, result, calls>>
  /\ UNCHANGED <<selections, upserts, now, processorVars, chatVars>>

\* openai.embeddings.create resolves for document d of run r
EmbedResolved(r, d) ==
  /\ r \in 1..Len(runs)
  /\ d \in DOMAIN runs[r].replies
  /\ runs[r].replies[d].status = "pending"
  /\ LET answered == [runs[r] EXCEPT !.replies[d] =
                                       [status |-> "resolved", id |-> RecordId(d - 1, now)]]
     IN  runs' = [runs EXCEPT ![r] =
                    IF /\ answered.pc = "embedding"
                       /\ \A x \in DOMAIN answered.replies : answered.replies[x].status = "resolved"
                    THEN [answered EXCEPT !.pc = "upserting"]
                    ELSE answered]
  /\ UNCHANGED queryVars
  /\ UNCHANGED <<selections, upserts, now, processorVars, chatVars>>

\* openai.embeddings.create rejects for document d of run r
EmbedRejected(r, d, e) ==
  /\ r \in 1..Len(runs)
  /\ d \in DOMAIN runs[r].replies
  /\ runs[r].replies[d].status = "pending"
  /\ LET answered == [runs[r] EXCEPT !.replies[d] = [status |-> "rejected", id |-> ""]]
     IN  IF answered.pc = "embedding" THEN
           /\ runs' = [runs EXCEPT ![r] = [answered EXCEPT !.pc = "done",
                                                           !.result = Thrown(EmbeddingError)]]
           /\ console' = console \o <<LogError("Error creating embedding:", e),
                                      LogError("Error ingesting documents:", EmbeddingError)>>
         ELSE
           /\ runs' = [runs EXCEPT ![r] = answered]
           /\ console' = Append(console, LogError("Error creating embedding:", e))
  /\ UNCHANGED <<env, contentData, pinecone, isInitialized, pc, userQuery, conversationHistory,
                 searchResults, contexts, prompt, completion, result, calls>>
  /\ UNCHANGED <<selections, upserts, now, processorVars, chatVars>>

\* index.upsert resolves: the batch is committed and the loop goes on
UpsertResolved(r) ==
  /\ r \in 1..Len(runs)
  /\ runs[r].pc = "upserting"
  /\ LET run == runs[r]
         n == Len(run.documents)
         ingested == Log("Ingested batch " \o NumToStr(run.i \div batchSize + 1) \o " of "
                           \o NumToStr(Ceil(n, batchSize)))
     IN  /\ upserts' = Append(upserts, [run |-> r, ok |-> TRUE, vectors |-> BatchVectors(run)])
         /\ IF run.i + batchSize < n THEN
              /\ runs' = [runs EXCEPT ![r] = StartBatch(run, run.i + batchSize)]
              /\ console' = Append(console, ingested)
            ELSE
              /\ runs' = [runs EXCEPT ![r] = [run EXCEPT !.pc = "done",
                                                         !.result = Returned("undefined")]]
              /\ console' = console \o <<ingested,
                                         Log("Successfully ingested " \o NumToStr(n)
                                               \o " documents")>>
  /\ UNCHANGED <<env, contentData, pinecone, isInitialized, pc, userQuery, conversationHistory,
                 searchResults, contexts, prompt, completion, result, calls>>
  /\ UNCHANGED <<selections, now, processorVars, chatVars>>

\* the rejection logged and the loop going on with the next batch
UpsertRejected_continue(r, e, c) ==
  /\ r \in 1..Len(runs)
  /\ runs[r].pc = "upserting"
  /\ c \in 0..(Len(BatchVectors(runs[r])) - 1)
  /\ upserts' = Append(upserts, [run |-> r, ok |-> FALSE,
                                 vectors |-> SliceFirst(BatchVectors(runs[r]), c)])
  /\ runs' = [runs EXCEPT ![r] =
                IF @.i + batchSize < Len(@.documents)
                THEN StartBatch(@, @.i + batchSize)
                ELSE [@ EXCEPT !.pc = "done", !.result = Returned("undefined")]]
  /\ console' = Append(console, LogError("Error ingesting documents:", e))
  /\ UNCHANGED <<env, contentData, pinecone, isInitialized, pc, userQuery, conversationHistory,
                 searchResults, contexts, prompt, completion, result, calls>>
  /\ UNCHANGED <<selections, now, processorVars, chatVars>>

\* index.upsert rejects after the index has committed the first c records of the batch
UpsertRejected(r, e, c) ==
  /\ r \in 1..Len(runs)
  /\ runs[r].pc = "upserting"
  /\ c \in 0..(Len(BatchVectors(runs[r])) - 1)
  /\ upserts' = Append(upserts, [run |-> r, ok |-> FALSE,
                                 vectors |-> SliceFirst(BatchVectors(runs[r]), c)])
  /\ runs' = [runs EXCEPT ![r] = [@ EXCEPT !.pc = "done", !.result = Thrown(e)]]
  /\ console' = Append(console, LogError("Error ingesting documents:", e))
  /\ UNCHANGED <<env, contentData, pinecone, isInitialized, pc, userQuery, conversationHistory,
                 searchResults, contexts, prompt, completion, result, calls>>
  /\ UNCHANGED <<selections, now, processorVars, chatVars>>

\* a millisecond passes
Tick ==
  /\ now < MaxTime
  /\ now' = now + 1
  /\ UNCHANGED queryVars
  /\ UNCHANGED <<selections, runs, upserts, processorVars, chatVars>>

(***************************************************************************)
(* One ingestion run over up to MaxDocs documents.  The replies of a batch *)
(* arrive in document order; a reply that arrives after the run has failed *)
(* resolves, or rejects when it is the last one outstanding.               *)
(***************************************************************************)
InitIngest ==
  /\ env \in {[OPENAI_API_KEY |-> TRUE, PINECONE_API_KEY |-> k] : k \in {"set", "unset"}}
  /\ contentData = Content(1, 1, 1, 1, TRUE)
  /\ userQuery = ""
  /\ pc = "idle"
  /\ result = NoResult
  /\ pinecone = "null"
  /\ isInitialized = FALSE
  /\ conversationHistory = <<>>
  /\ searchResults = NoSearch
  /\ contexts = <<>>
  /\ prompt = ""
  /\ completion = NoCompletion
  /\ console = <<>>
  /\ calls = NoCalls
  /\ SelectorIdle
  /\ IngestIdle
  /\ ProcessorIdle
  /\ ChatIdle

DocCounts == {0, 1, batchSize, MaxDocs}

PendingReplies(r) ==
  IF r \in 1..Len(runs)
  THEN {d \in DOMAIN runs[r].replies : runs[r].replies[d].status = "pending"}
  ELSE {}

FirstPending(r) == {d \in PendingReplies(r) : \A x \in PendingReplies(r) : d <= x}

NextBatches ==
  \/ \E n \in DocCounts : runs = <<>> /\ IngestCall(Documents(n))
  \/ \E d \in FirstPending(1) : EmbedResolved(1, d)
  \/ \E d \in FirstPending(1) :
       /\ runs[1].pc = "embedding" \/ PendingReplies(1) = {d}
       /\ EmbedRejected(1, d, Error("429 Rate limit reached"))
  \/ UpsertResolved(1)
  \/ \E c \in {0, 1, batchSize - 1} : UpsertRejected(1, Error("Request timed out"), c)

SpecBatches == InitIngest /\ [][NextBatches]_vars

\* what the index answered to the upsert requests of run r, in order
RunUpserts(log, r) == SelectSeq(log, LAMBDA u : u.run = r)

RECURSIVE Records(_)
\* the records of the log entries, one after the other
Records(log) == IF log = <<>> THEN <<>> ELSE log[1].vectors \o Records(Tail(log))

RunFailed(r) == runs[r].result.kind = "throw"

IsPrefix(a, b) == Len(a) <= Len(b) /\ SubSeq(b, 1, Len(a)) = a

\* C16: when an embedding or the upsert of batch k fails, the run throws; from then on the
\* index receives nothing more from the run (the records of batch k it had not committed
\* are never upserted, no later batch is embedded or upserted), and what any step does to
\* the committed records is to append to them.
C16_PartialFailureIsolation ==
  /\ [](\A r \in 1..Len(runs) :
          /\ (\E d \in DOMAIN runs[r].replies : runs[r].replies[d].status = "rejected")
               => runs[r].result = Thrown(EmbeddingError)
          /\ (\E k \in 1..Len(upserts) : upserts[k].run = r /\ ~upserts[k].ok)
               => RunFailed(r) /\ runs[r].result.value \in PineconeErrors)
  /\ [][/\ IsPrefix(upserts, upserts')
        /\ \A r \in 1..Len(runs) :
             RunFailed(r) =>
               /\ RunUpserts(upserts', r) = RunUpserts(upserts, r)
               /\ runs'[r].requested = runs[r].requested
               /\ runs'[r].i = runs[r].i
               /\ runs'[r].result = runs[r].result]_vars

\* the second batch failed on document 101; the reply for 102 came in afterwards; the
\* first batch stays committed and nothing of the second is
C16_Witness ==
  /\ Len(runs) = 1
  /\ runs[1].i = batchSize
  /\ runs[1].replies[101].status = "rejected"
  /\ runs[1].replies[102].status = "resolved"
  /\ RunFailed(1)
  /\ Len(upserts) = 1
  /\ Len(upserts[1].vectors) = 100

CommittedBatches(r) == Len(SelectSeq(upserts, LAMBDA u : u.run = r /\ u.ok))

\* C17: every upsert carries at most 100 records; the records a run has upserted are its
\* documents in order, each once, and all of them once the run has returned; the
\* embeddings requested so far all belong to the batches up to the one after the last
\* committed batch, and an upsert is only requested once every embedding of its batch
\* has resolved.
C17_BatchingOrder ==
  \A r \in 1..Len(runs) :
    LET committed == Records(RunUpserts(upserts, r))
    IN  /\ \A k \in 1..Len(upserts) : Len(upserts[k].vectors) <= 100
        /\ Len(committed) <= Len(runs[r].documents)
        /\ \A j \in 1..Len(committed) : committed[j].metadata.text = runs[r].documents[j].text
        /\ runs[r].result.kind = "return" => Len(committed) = Len(runs[r].documents)
        /\ runs[r].requested <= 100 * (CommittedBatches(r) + 1)
        /\ runs[r].pc = "upserting" => \A d \in DOMAIN runs[r].replies :
                                          runs[r].replies[d].status = "resolved"

\* the first batch of 100 is committed, the two embeddings of the second are in flight
C17_Witness ==
  /\ Len(runs) = 1
  /\ Len(runs[1].documents) = 102
  /\ runs[1].pc = "embedding"
  /\ runs[1].requested = 102
  /\ PendingReplies(1) = {101, 102}
  /\ Len(upserts) = 1
  /\ upserts[1].ok
  /\ Len(upserts[1].vectors) = 100

(***************************************************************************)
(* Several ingestion runs of one or two documents on the same index, with  *)
(* the clock advancing; the replies arrive in any order.                   *)
(***************************************************************************)
NextReingest ==
  \/ \E n \in 1..2 : IngestCall(Documents(n))
  \/ \E r \in 1..Len(runs) : \E d \in PendingReplies(r) : EmbedResolved(r, d)
  \/ \E r \in 1..Len(runs) : UpsertResolved(r)
  \/ Tick

SpecReingest == InitIngest /\ [][NextReingest]_vars

\* C18 as stated: no two records the index has been given carry the same id, whether they
\* come from one run or from two.
C18_RecordIdsUnique ==
  \A a, b \in 1..Len(Records(upserts)) :
    a # b => Records(upserts)[a].id # Records(upserts)[b].id

(***************************************************************************)
(* DocumentProcessor: the string functions it is written with.             *)
(***************************************************************************)
Char(s, i) == SubSeq(s, i, i)

\* the characters \s matches and trim() strips, as far as the inputs have them
Whitespace == {" ", "\n", "\t"}

\* [.!?]
Terminators == {".", "!", "?"}

\* the first position from i on whose character is outside the run: the run is of
\* characters in S when member, of characters not in S otherwise
RunEnd(s, i, S, member) ==
  CHOOSE j \in i..(Len(s) + 1) :
    /\ j = Len(s) + 1 \/ (Char(s, j) \in S) # member
    /\ \A k \in i..(j - 1) : (Char(s, k) \in S) = member

trim(s) ==
  LET lo == RunEnd(s, 1, Whitespace, TRUE)
  IN  IF lo > Len(s) THEN ""
      ELSE SubSeq(s, lo, CHOOSE j \in lo..Len(s) :
                           /\ Char(s, j) \notin Whitespace
                           /\ \A k \in (j + 1)..Len(s) : Char(s, k) \in Whitespace)

RECURSIVE replaceNewlineRuns(_, _)
\* .replace(/\n{3,}/g, '\n\n'), from position i on
replaceNewlineRuns(s, i) ==
  IF i > Len(s) THEN ""
  ELSE IF Char(s, i) = "\n" THEN
    LET e == RunEnd(s, i, {"\n"}, TRUE)
    IN  (IF e - i >= 3 THEN "\n\n" ELSE SubSeq(s, i, e - 1)) \o replaceNewlineRuns(s, e)
  ELSE LET e == RunEnd(s, i, {"\n"}, FALSE)
       IN  SubSeq(s, i, e - 1) \o replaceNewlineRuns(s, e)

RECURSIVE replaceWhitespaceRuns(_, _)
\* .replace(/\s+/g, ' '), from position i on
replaceWhitespaceRuns(s, i) ==
  IF i > Len(s) THEN ""
  ELSE IF Char(s, i) \in Whitespace
  THEN " " \o replaceWhitespaceRuns(s, RunEnd(s, i, Whitespace, TRUE))
  ELSE LET e == RunEnd(s, i, Whitespace, FALSE)
       IN  SubSeq(s, i, e - 1) \o replaceWhitespaceRuns(s, e)

cleanedText(text) == trim(replaceWhitespaceRuns(replaceNewlineRuns(text, 1), 1))

RECURSIVE matchSentences(_, _)
\* .match(/[^.!?]+[.!?]+/g), from position i on: a match opens at the first character
\* that is no terminator and needs a terminator after its run of other characters
matchSentences(s, i) ==
  LET start == RunEnd(s, i, Terminators, TRUE)
      stop == RunEnd(s, start, Terminators, FALSE)
      next == RunEnd(s, stop, Terminators, TRUE)
  IN  IF start > Len(s) \/ stop > Len(s) THEN <<>>
      ELSE <<SubSeq(s, start, next - 1)>> \o matchSentences(s, next)

\* cleanedText.match(...) || [cleanedText]
sentencesOf(cleaned) ==
  IF matchSentences(cleaned, 1) = <<>> THEN <<cleaned>> ELSE matchSentences(cleaned, 1)

RECURSIVE split(_, _, _)
\* s.split(sep) for a one-character separator, from position i on
split(s, sep, i) ==
  LET j == RunEnd(s, i, {sep}, FALSE)
  IN  <<SubSeq(s, i, j - 1)>> \o (IF j > Len(s) THEN <<>> ELSE split(s, sep, j + 1))

\* array.slice(-k): the last k elements, and the whole array for k = 0
sliceFromEnd(array, k) == IF k = 0 THEN array ELSE SliceLast(array, k)

(***************************************************************************)
(* DocumentProcessor.chunkText and splitByMarkdownHeaders.                 *)
(***************************************************************************)
\* the buffer after a chunk is closed: the overlap words, a space, the sentence
carryOver(currentChunk, sentence, chunkOverlap) ==
  Join(sliceFromEnd(split(currentChunk, " ", 1), chunkOverlap \div 5), " ") \o " " \o sentence

RECURSIVE chunkLoop(_, _, _, _, _, _)
\* the for loop from sentence k on, and the push of what is left in the buffer
chunkLoop(sentences, k, currentChunk, chunks, chunkSize, chunkOverlap) ==
  IF k > Len(sentences) THEN
    IF Len(trim(currentChunk)) > 0 THEN Append(chunks, trim(currentChunk)) ELSE chunks
  ELSE IF Len(currentChunk \o sentences[k]) > chunkSize /\ Len(currentChunk) > 0 THEN
    chunkLoop(sentences, k + 1, carryOver(currentChunk, sentences[k], chunkOverlap),
              Append(chunks, trim(currentChunk)), chunkSize, chunkOverlap)
  ELSE
    chunkLoop(sentences, k + 1, currentChunk \o sentences[k], chunks, chunkSize, chunkOverlap)

chunkText(text, chunkSize, chunkOverlap) ==
  chunkLoop(sentencesOf(cleanedText(text)), 1, "", <<>>, chunkSize, chunkOverlap)

\* line.match(/^#{1,6}\s/)
isHeader(line) ==
  \E k \in 1..6 :
    /\ Len(line) > k
    /\ \A j \in 1..k : Char(line, j) = "#"
    /\ Char(line, k + 1) \in Whitespace

RECURSIVE sectionLoop(_, _, _, _)
\* the for loop from line k on, and the push of the last section
sectionLoop(lines, k, currentSection, sections) ==
  LET pushed == IF Len(trim(currentSection)) > 0
                THEN Append(sections, trim(currentSection))
                ELSE sections
  IN  IF k > Len(lines) THEN pushed
      ELSE IF isHeader(lines[k])
      THEN sectionLoop(lines, k + 1, lines[k] \o "\n", pushed)
      ELSE sectionLoop(lines, k + 1, currentSection \o lines[k] \o "\n", sections)

splitByMarkdownHeaders(content) == sectionLoop(split(content, "\n", 1), 1, "", <<>>)

(***************************************************************************)
(* DocumentProcessor.processPDF, processTextFile and processMarkdown.      *)
(***************************************************************************)
ReadError == [name |-> "Error", message |-> "ENOENT: no such file or directory"]

\* chunks.map((chunk, index) => ({ text, metadata: { source, type, chunkIndex, totalChunks } }))
chunkDocuments(chunks, fileName, type) ==
  [index \in 1..Len(chunks) |->
     [text |-> chunks[index],
      metadata |-> [source |-> fileName, type |-> type,
                    chunkIndex |-> index - 1, totalChunks |-> Len(chunks)]]]

\* processPDF and processTextFile differ in how the text is read and in the type
processWhole(f, p, type) ==
  IF ~f.readable THEN Thrown(ReadError)
  ELSE Returned(chunkDocuments(chunkText(f.content, p.chunkSize, p.chunkOverlap), f.name, type))

\* the chunks of one section: the section itself unless it is longer than chunkSize
sectionChunks(section, p) ==
  IF Len(section) > p.chunkSize
  THEN chunkText(section, p.chunkSize, p.chunkOverlap)
  ELSE <<section>>

\* the documents of a section carrying the section's own chunk count as totalChunks
sectionDocuments_sectionTotal(sections, index, fileName, p) ==
  LET chunks == sectionChunks(sections[index + 1], p)
  IN  [chunkIdx \in 1..Len(chunks) |->
         [text |-> chunks[chunkIdx],
          metadata |-> [source |-> fileName, type |-> "markdown",
                        chunkIndex |-> index * Len(chunks) + (chunkIdx - 1),
                        totalChunks |-> Len(chunks)]]]

\* the documents of section `index` (counted from 0)
sectionDocuments(sections, index, fileName, p) ==
  LET chunks == sectionChunks(sections[index + 1], p)
  IN  [chunkIdx \in 1..Len(chunks) |->
         [text |-> chunks[chunkIdx],
          metadata |-> [source |-> fileName, type |-> "markdown",
                        chunkIndex |-> index * Len(chunks) + (chunkIdx - 1),
                        totalChunks |-> Len(sections) * Len(chunks)]]]

RECURSIVE flatSections(_, _, _, _)
\* sections.map(...).flat(), from section `index` on
flatSections(sections, index, fileName, p) ==
  IF index >= Len(sections) THEN <<>>
  ELSE sectionDocuments(sections, index, fileName, p)
         \o flatSections(sections, index + 1, fileName, p)

processMarkdown(f, p) ==
  IF ~f.readable THEN Thrown(ReadError)
  ELSE Returned(flatSections(splitByMarkdownHeaders(f.content), 0, f.name, p))

(***************************************************************************)
(* One file handed to one DocumentProcessor: Init draws the processor's    *)
(* chunkSize and chunkOverlap and the file, a step calls one of the three  *)
(* methods on it.                                                          *)
(***************************************************************************)
Fragments ==
  {"# Intro\n", "Alpha beta gamma. ", "Delta epsilon zeta eta theta iota!",
   "\n\n\n## Next\n", "tail words", "?! Or so. "}

RECURSIVE Concat(_)
Concat(parts) == IF parts = <<>> THEN "" ELSE parts[1] \o Concat(Tail(parts))

FileContents == {Concat(parts) : parts \in UNION {[1..n -> Fragments] : n \in 0..MaxParts}}

Files ==
  {[name |-> "notes.md", content |-> c, readable |-> TRUE] : c \in FileContents}
    \cup {[name |-> "notes.md", content |-> "", readable |-> FALSE]}

\* new DocumentProcessor(), and processors built with small sizes
Processors ==
  {[chunkSize |-> 1000, chunkOverlap |-> 200], [chunkSize |-> 20, chunkOverlap |-> 0],
   [chunkSize |-> 20, chunkOverlap |-> 5], [chunkSize |-> 20, chunkOverlap |-> 10]}

InitDocs ==
  /\ processor \in Processors
  /\ file \in Files
  /\ processed = NoResult
  /\ env = [OPENAI_API_KEY |-> FALSE, PINECONE_API_KEY |-> "unset"]
  /\ contentData = Content(1, 1, 1, 1, TRUE)
  /\ userQuery = ""
  /\ pc = "idle"
  /\ result = NoResult
  /\ pinecone = "null"
  /\ isInitialized = FALSE
  /\ conversationHistory = <<>>
  /\ searchResults = NoSearch
  /\ contexts = <<>>
  /\ prompt = ""
  /\ completion = NoCompletion
  /\ console = <<>>
  /\ calls = NoCalls
  /\ SelectorIdle
  /\ IngestIdle
  /\ chunker = NoChunker
  /\ ChatIdle

\* the catch block of the three methods: console.error(message, error); throw error
afterCatch(outcome, message) ==
  IF outcome.kind = "throw" THEN Append(console, LogError(message, outcome.value)) ELSE console

ProcessPDF ==
  /\ processed = NoResult
  /\ processed' = processWhole(file, processor, "pdf")
  /\ console' = afterCatch(processWhole(file, processor, "pdf"),
                           "Error processing PDF " \o file.name \o ":")
  /\ UNCHANGED <<env, contentData, pinecone, isInitialized, pc, userQuery, conversationHistory,
                 searchResults, contexts, prompt, completion, result, calls>>
  /\ UNCHANGED <<selections, ingestVars, processor, file, chunker, chatVars>>

ProcessTextFile ==
  /\ processed = NoResult
  /\ processed' = processWhole(file, processor, "text")
  /\ console' = afterCatch(processWhole(file, processor, "text"),
                           "Error processing text file " \o file.name \o ":")
  /\ UNCHANGED <<env, contentData, pinecone, isInitialized, pc, userQuery, conversationHistory,
                 searchResults, contexts, prompt, completion, result, calls>>
  /\ UNCHANGED <<selections, ingestVars, processor, file, chunker, chatVars>>

ProcessMarkdown ==
  /\ processed = NoResult
  /\ processed' = processMarkdown(file, processor)
  /\ console' = afterCatch(processMarkdown(file, processor),
                           "Error processing markdown file " \o file.name \o ":")
  /\ UNCHANGED <<env, contentData, pinecone, isInitialized, pc, userQuery, conversationHistory,
                 searchResults, contexts, prompt, completion, result, calls>>
  /\ UNCHANGED <<selections, ingestVars, processor, file, chunker, chatVars>>

NextDocs == ProcessPDF \/ ProcessTextFile \/ ProcessMarkdown

SpecDocs == InitDocs /\ [][NextDocs]_vars

ProcessedChunks == IF processed.kind = "return" THEN processed.value ELSE <<>>

\* C19 as stated: the chunks of a document carry chunkIndex 0, 1, ..., n-1 in the order
\* they are emitted and totalChunks n, n being the number of chunks of the document,
\* whichever of the three methods produced them.
C19_IndexMonotonicity ==
  \A j \in 1..Len(ProcessedChunks) :
    /\ ProcessedChunks[j].metadata.chunkIndex = j - 1
    /\ ProcessedChunks[j].metadata.totalChunks = Len(ProcessedChunks)

\* C20: every chunk the three methods emit has 0 <= chunkIndex < totalChunks.
C20_ChunkIndexInRange ==
  \A j \in 1..Len(ProcessedChunks) :
    /\ 0 <= ProcessedChunks[j].metadata.chunkIndex
    /\ ProcessedChunks[j].metadata.chunkIndex < ProcessedChunks[j].metadata.totalChunks

\* a markdown file of two sections, the first split in two chunks: the last chunk of each
\* section carries the index just below its totalChunks
C20_Witness ==
  /\ Len(ProcessedChunks) = 3
  /\ \A j \in 1..3 : ProcessedChunks[j].metadata.type = "markdown"
  /\ ProcessedChunks[2].metadata.chunkIndex = 1
  /\ ProcessedChunks[2].metadata.totalChunks = 4
  /\ ProcessedChunks[3].metadata.chunkIndex = 1
  /\ ProcessedChunks[3].metadata.totalChunks = 2

(***************************************************************************)
(* DocumentProcessor.chunkText step by step: the call normalises the text  *)
(* and splits it into sentences, every turn of the loop either closes the  *)
(* chunk in the buffer or appends the sentence to it, the return pushes    *)
(* what the buffer still holds.  The text is the content of `file`.        *)
(***************************************************************************)
InitChunks ==
  /\ InitDocs
  /\ file.readable

ChunkTextCall ==
  /\ chunker = NoChunker
  /\ processed = NoResult
  /\ chunker' = [sentences |-> sentencesOf(cleanedText(file.content)), k |-> 1,
                 currentChunk |-> "", chunks |-> <<>>]
  /\ UNCHANGED queryVars
  /\ UNCHANGED <<selections, ingestVars, processor, file, processed, chatVars>>

\* (currentChunk + sentence).length > this.chunkSize && currentChunk.length > 0
mustClose(c, p) ==
  /\ Len(c.currentChunk \o c.sentences[c.k]) > p.chunkSize
  /\ Len(c.currentChunk) > 0

CloseChunk ==
  /\ chunker.k \in 1..Len(chunker.sentences)
  /\ mustClose(chunker, processor)
  /\ chunker' = [chunker EXCEPT
                   !.chunks = Append(@, trim(chunker.currentChunk)),
                   !.currentChunk = carryOver(chunker.currentChunk,
                                              chunker.sentences[chunker.k],
                                              processor.chunkOverlap),
                   !.k = @ + 1]
  /\ UNCHANGED queryVars
  /\ UNCHANGED <<selections, ingestVars, processor, file, processed, chatVars>>

AppendSentence ==
  /\ chunker.k \in 1..Len(chunker.sentences)
  /\ ~mustClose(chunker, processor)
  /\ chunker' = [chunker EXCEPT !.currentChunk = @ \o chunker.sentences[chunker.k],
                                !.k = @ + 1]
  /\ UNCHANGED queryVars
  /\ UNCHANGED <<selections, ingestVars, processor, file, processed, chatVars>>

ChunkTextReturn ==
  /\ chunker.k > Len(chunker.sentences)
  /\ processed = NoResult
  /\ LET chunks == IF Len(trim(chunker.currentChunk)) > 0
                   THEN Append(chunker.chunks, trim(chunker.currentChunk))
                   ELSE chunker.chunks
     IN  /\ chunker' = [chunker EXCEPT !.chunks = chunks]
         /\ processed' = Returned(chunks)
  /\ UNCHANGED queryVars
  /\ UNCHANGED <<selections, ingestVars, processor, file, chatVars>>

NextChunks == ChunkTextCall \/ CloseChunk \/ AppendSentence \/ ChunkTextReturn

SpecChunks == InitChunks /\ [][NextChunks]_vars

ChunksReturned == chunker # NoChunker /\ processed.kind = "return"

RECURSIVE withoutSpaces(_, _)
\* the string from position i on, its spaces taken out
withoutSpaces(s, i) ==
  IF i > Len(s) THEN ""
  ELSE IF Char(s, i) = " " THEN withoutSpaces(s, RunEnd(s, i, {" "}, TRUE))
  ELSE LET e == RunEnd(s, i, {" "}, FALSE)
       IN  SubSeq(s, i, e - 1) \o withoutSpaces(s, e)

RECURSIVE Reconstructs(_, _, _)
\* chunk k and the chunks after it, each cut at some point of its start (the first chunk
\* not cut at all), spell `rest` one after the other; spaces are not counted
Reconstructs(chunks, k, rest) ==
  IF k > Len(chunks) THEN rest = ""
  ELSE LET c == withoutSpaces(chunks[k], 1)
       IN  \E cut \in (IF k = 1 THEN {0} ELSE 0..Len(c)) :
             /\ startsWith(rest, SubSeq(c, cut + 1, Len(c)))
             /\ Reconstructs(chunks, k + 1, SubSeq(rest, Len(c) - cut + 1, Len(rest)))

\* C21 as stated: the chunks, each after the first without the overlap at its start, put
\* one after the other give back the whitespace-normalised text; nothing of it is lost.
C21_ChunkCoverage ==
  ChunksReturned =>
    Reconstructs(processed.value, 1, withoutSpaces(cleanedText(file.content), 1))

\* C22 as stated: every chunk but the last is at most chunkSize long plus the overlap it
\* starts with; the overlap of the first chunk is empty, that of a later chunk is at most
\* the chunk before it and the spaces joining it.
C22_ChunkBound ==
  ChunksReturned =>
    \A k \in 1..(Len(processed.value) - 1) :
      Len(processed.value[k])
        <= processor.chunkSize + (IF k = 1 THEN 0 ELSE Len(processed.value[k - 1]) + 2)

\* the last n words of s, none for n = 0
TrailingWords(s, n) ==
  LET words == split(s, " ", 1)
  IN  SubSeq(words, Max(1, Len(words) - n + 1), Len(words))

ClosesChunk == Len(chunker'.chunks) = Len(chunker.chunks) + 1 /\ chunker'.k = chunker.k + 1

\* C25 as stated: when a chunk is closed the buffer restarts as the last
\* floor(chunkOverlap / 5) words of the closed chunk followed by the new sentence: no word
\* is carried over when chunkOverlap is below 5.  Spaces at the two ends are not counted.
C25_OverlapWindow ==
  [][ClosesChunk =>
       trim(chunker'.currentChunk)
         = trim(Join(TrailingWords(trim(chunker.currentChunk), processor.chunkOverlap \div 5), " ")
                  \o " " \o chunker.sentences[chunker.k])]_vars

(***************************************************************************)
(* DocumentProcessor.processDirectory.  A directory entry is a record      *)
(* [kind, name, content, readable, entries]: for a file, readable says     *)
(* whether reading and parsing it succeeds; for a directory, whether       *)
(* readdirSync succeeds.                                                   *)
(***************************************************************************)
FileEntry(name, content, readable) ==
  [kind |-> "file", name |-> name, content |-> content, readable |-> readable, entries |-> <<>>]

DirEntry(name, entries, readable) ==
  [kind |-> "dir", name |-> name, content |-> "", readable |-> readable, entries |-> entries]

\* path.extname: from the last dot on, empty without a dot or with the dot in front
extname(name) ==
  LET dots == {i \in 1..Len(name) : Char(name, i) = "."}
  IN  IF dots = {} \/ dots = {1} THEN ""
      ELSE SubSeq(name, CHOOSE i \in dots : \A j \in dots : j <= i, Len(name))

\* what a call leaves: its outcome and what it wrote with console.error
Outcome(outcome, logs) == [outcome |-> outcome, logs |-> logs]

\* the catch block: console.error(message, error); throw error
rethrow(outcome, logs, message) ==
  Outcome(outcome,
          IF outcome.kind = "throw" THEN Append(logs, LogError(message, outcome.value)) ELSE logs)

RECURSIVE processDirectory(_, _, _)
RECURSIVE directoryLoop(_, _, _, _, _)

\* one entry with every failure skipped instead of thrown
processEntry_skipFailed(entry, filePath, p) ==
  LET ext == toLowerCase(extname(entry.name))
      done == IF entry.kind = "dir" THEN processDirectory(entry, filePath, p)
              ELSE IF ext = ".pdf" THEN
                rethrow(processWhole(entry, p, "pdf"), <<>>,
                        "Error processing PDF " \o filePath \o ":")
              ELSE IF ext = ".txt" THEN
                rethrow(processWhole(entry, p, "text"), <<>>,
                        "Error processing text file " \o filePath \o ":")
              ELSE IF ext = ".md" THEN
                rethrow(processMarkdown(entry, p), <<>>,
                        "Error processing markdown file " \o filePath \o ":")
              ELSE Outcome(Returned(<<>>), <<>>)
  IN  IF done.outcome.kind = "throw" THEN Outcome(Returned(<<>>), done.logs) ELSE done

\* the body of the for loop: a subdirectory is processed recursively, a file by extension
processEntry(entry, filePath, p) ==
  LET ext == toLowerCase(extname(entry.name))
  IN  IF entry.kind = "dir" THEN processDirectory(entry, filePath, p)
      ELSE IF ext = ".pdf" THEN
        rethrow(processWhole(entry, p, "pdf"), <<>>,
                "Error processing PDF " \o filePath \o ":")
      ELSE IF ext = ".txt" THEN
        rethrow(processWhole(entry, p, "text"), <<>>,
                "Error processing text file " \o filePath \o ":")
      ELSE IF ext = ".md" THEN
        rethrow(processMarkdown(entry, p), <<>>,
                "Error processing markdown file " \o filePath \o ":")
      ELSE Outcome(Returned(<<>>), <<>>)

\* the for loop from entry k on
directoryLoop(entries, k, documents, dirPath, p) ==
  IF k > Len(entries) THEN Outcome(Returned(documents), <<>>)
  ELSE LET done == processEntry(entries[k], dirPath \o "/" \o entries[k].name, p)
       IN  IF done.outcome.kind = "throw" THEN done
           ELSE LET rest == directoryLoop(entries, k + 1, documents \o done.outcome.value,
                                          dirPath, p)
                IN  Outcome(rest.outcome, done.logs \o rest.logs)

processDirectory(dir, dirPath, p) ==
  IF ~dir.readable
  THEN rethrow(Thrown(ReadError), <<>>, "Error processing directory " \o dirPath \o ":")
  ELSE LET walked == directoryLoop(dir.entries, 1, <<>>, dirPath, p)
       IN  rethrow(walked.outcome, walked.logs, "Error processing directory " \o dirPath \o ":")

(***************************************************************************)
(* One directory tree handed to one DocumentProcessor.                     *)
(***************************************************************************)
FilePool ==
  {FileEntry("a.md", "# T\nHi there.", TRUE), FileEntry("b.TXT", "Plain. Text!", TRUE),
   FileEntry("c.pdf", "", FALSE), FileEntry("d.png", "", FALSE), FileEntry("README", "Read me.", TRUE)}

RECURSIVE SubDirs(_)
\* the directories of at most `depth` levels: unreadable, or holding one entry
SubDirs(depth) ==
  IF depth = 0 THEN {}
  ELSE {DirEntry("sub", <<>>, FALSE)}
         \cup {DirEntry("sub", <<e>>, TRUE) : e \in FilePool \cup SubDirs(depth - 1)}

Directories ==
  {DirEntry("docs", <<>>, FALSE)}
    \cup {DirEntry("docs", entries, TRUE) :
            entries \in UNION {[1..n -> FilePool \cup SubDirs(MaxDepth - 1)] : n \in 0..MaxEntries}}

InitDirs ==
  /\ processor \in {[chunkSize |-> 1000, chunkOverlap |-> 200], [chunkSize |-> 20, chunkOverlap |-> 5]}
  /\ file \in Directories
  /\ processed = NoResult
  /\ chunker = NoChunker
  /\ env = [OPENAI_API_KEY |-> FALSE, PINECONE_API_KEY |-> "unset"]
  /\ contentData = Content(1, 1, 1, 1, TRUE)
  /\ userQuery = ""
  /\ pc = "idle"
  /\ result = NoResult
  /\ ServiceIdle
  /\ SelectorIdle
  /\ IngestIdle
  /\ ChatIdle

ProcessDirectory ==
  /\ processed = NoResult
  /\ processed' = processDirectory(file, file.name, processor).outcome
  /\ console' = console \o processDirectory(file, file.name, processor).logs
  /\ UNCHANGED <<env, contentData, pinecone, isInitialized, pc, userQuery, conversationHistory,
                 searchResults, contexts, prompt, completion, result, calls>>
  /\ UNCHANGED <<selections, ingestVars, processor, file, chunker, chatVars>>

NextDirs == ProcessDirectory

SpecDirs == InitDirs /\ [][NextDirs]_vars

\* the extensions processDirectory dispatches on, compared without regard to case
Supported(name) ==
  \E ext \in {".pdf", ".txt", ".md"} :
    endsWith(toLowerCase(name), ext) /\ Len(name) > Len(ext)

RECURSIVE FilesUnder(_)
\* the files below a directory, at any depth
FilesUnder(dir) ==
  UNION {IF dir.entries[i].kind = "file" THEN {dir.entries[i]} ELSE FilesUnder(dir.entries[i]) :
           i \in 1..Len(dir.entries)}

RECURSIVE DirsUnder(_)
\* a directory and the directories below it
DirsUnder(dir) ==
  {dir} \cup UNION {IF dir.entries[i].kind = "dir" THEN DirsUnder(dir.entries[i]) ELSE {} :
                      i \in 1..Len(dir.entries)}

\* some directory cannot be listed or some supported file cannot be read or parsed
SomethingFails(dir) ==
  \/ \E d \in DirsUnder(dir) : ~d.readable
  \/ \E f \in FilesUnder(dir) : Supported(f.name) /\ ~f.readable

\* C23: processDirectory throws exactly when listing a directory or reading or parsing a
\* supported file fails at any depth, the error being logged for the directory; when it
\* returns, the documents come from every supported file below the directory and from no
\* other file, so no failed file is silently left out and files of other extensions are
\* skipped without an error, readable or not.
C23_DirectoryIngestionFailure ==
  processed.kind # "none" =>
    /\ processed.kind = "throw" <=> SomethingFails(file)
    /\ processed.kind = "throw" =>
         /\ processed.value = ReadError
         /\ console # <<>>
         /\ console[Len(console)]
              = LogError("Error processing directory " \o file.name \o ":", ReadError)
    /\ processed.kind = "return" =>
         /\ {processed.value[j].metadata.source : j \in 1..Len(processed.value)}
              = {f.name : f \in {g \in FilesUnder(file) : Supported(g.name)}}
         /\ console = <<>>

\* a readable markdown file, then a subdirectory whose PDF cannot be parsed: the call
\* throws, with the error logged for the PDF, the subdirectory and the directory
C23_Witness ==
  /\ processed.kind = "throw"
  /\ Len(file.entries) = 2
  /\ file.entries[1].name = "a.md"
  /\ file.entries[2].kind = "dir"
  /\ file.entries[2].readable
  /\ file.entries[2].entries[1].name = "c.pdf"
  /\ Len(console) = 3
  /\ console[1].text = "Error processing PDF docs/sub/c.pdf:"

(***************************************************************************)
(* DocumentProcessor.processStructuredData.  The data handed in is the     *)
(* content of the site; the entries of the pools above are given the       *)
(* further properties the renderer reads.  With `full` every entry carries *)
(* every optional property; without it the entries of even number carry    *)
(* the required ones only, as the content types allow.                     *)
(***************************************************************************)
StructuredApp(i, full) ==
  IF full \/ i % 2 = 1
  THEN [role |-> "Lead", dateRange |-> "2024", problem |-> "Slow search.",
        solution |-> "An index. And a cache.", features |-> <<"Search", "Chat">>,
        learned |-> <<"Caching">>, myContribution |-> "Wrote it all."] @@ AppItem(i)
  ELSE [role |-> "Dev", dateRange |-> "2023"] @@ AppItem(i)

StructuredExperience(i, full) ==
  IF full
  THEN ExperienceItem(i) @@ [responsibilities |-> <<"Shipped.">>, stack |-> <<"Go">>,
                             impact |-> <<[k |-> "uptime", v |-> 99]>>]
  ELSE ExperienceItem(i)

StructuredEducation(i, full) ==
  IF full \/ i % 3 # 0
  THEN EducationItem(i) @@ [courses |-> <<"Circuits">>, projects |-> <<"Thesis. Lab.">>]
  ELSE EducationItem(i)

StructuredData(e, a, d, withAbout, full) ==
  LET entries == [apps |-> [i \in 1..a |-> StructuredApp(i, full)],
                  experience |-> [i \in 1..e |-> StructuredExperience(i, full)],
                  education |-> [i \in 1..d |-> StructuredEducation(i, full)]]
  IN  IF withAbout
      THEN entries @@ [about |-> [headline |-> "Engineer"] @@ Content(0, 0, 0, MaxSkills, full).about]
      ELSE entries

StructuredInputs ==
  {StructuredData(e, a, d, withAbout, full) :
     e \in 0..2, a \in 0..MaxApps, d \in 0..MaxEdu, withAbout \in BOOLEAN, full \in BOOLEAN}

\* x.join(...) of a property that may be absent
joinThrows(rec, fields) == \E f \in fields : f \notin DOMAIN rec

\* JSON.stringify of the impact object; of undefined it is undefined
stringifyImpact(exp) ==
  IF "impact" \notin DOMAIN exp THEN "undefined"
  ELSE "{" \o Join([i \in 1..Len(exp.impact) |->
                      "\"" \o exp.impact[i].k \o "\":" \o NumToStr(exp.impact[i].v)], ",") \o "}"

projectText(app) ==
  trim("\nProject: " \o app.title
       \o "\nDescription: " \o app.shortDescription
       \o "\nTechnologies: " \o Join(app.tech, ", ")
       \o "\nRole: " \o Render(app, "role")
       \o "\nDate: " \o Render(app, "dateRange")
       \o "\nProblem: " \o Render(app, "problem")
       \o "\nSolution: " \o Render(app, "solution")
       \o "\nContribution: " \o Render(app, "myContribution")
       \o "\nFeatures: " \o Join(app.features, ", ")
       \o "\nLearnings: " \o Join(app.learned, ", ")
       \o "\n        ")

experienceText(exp) ==
  trim("\nExperience: " \o exp.role \o " at " \o exp.company
       \o "\nPeriod: " \o exp.period
       \o "\nResponsibilities: " \o Join(exp.responsibilities, ". ")
       \o "\nTechnologies: " \o Join(exp.stack, ", ")
       \o "\nImpact: " \o stringifyImpact(exp)
       \o "\n        ")

educationText(edu) ==
  trim("\nEducation: " \o edu.degreeLevel \o " in " \o edu.program
       \o "\nInstitution: " \o edu.institution
       \o "\nPeriod: " \o edu.period
       \o "\nCourses: " \o Join(edu.courses, ", ")
       \o "\nProjects: " \o Join(edu.projects, ", ")
       \o "\n        ")

aboutText(about) ==
  trim("\nAbout: " \o Render(about, "headline")
       \o "\nBio: " \o about.bio
       \o "\nSkills:\n"
       \o Join([i \in 1..Len(about.skills) |->
                  about.skills[i].category \o ": " \o Join(about.skills[i].skills, ", ")], "\n")
       \o "\nContact:"
       \o "\nEmail: " \o about.contact.email
       \o "\nPhone: " \o Render(about.contact, "phone")
       \o "\nGitHub: " \o about.contact.github
       \o "\nLinkedIn: " \o about.contact.linkedin
       \o "\n        ")

structuredDocument(text, source, type) ==
  [text |-> text, metadata |-> [source |-> source, type |-> type]]

\* some forEach callback calls join on an absent array
structuredThrows(data) ==
  \/ \E i \in 1..Len(data.apps) : joinThrows(data.apps[i], {"tech", "features", "learned"})
  \/ \E i \in 1..Len(data.experience) :
       joinThrows(data.experience[i], {"responsibilities", "stack"})
  \/ \E i \in 1..Len(data.education) : joinThrows(data.education[i], {"courses", "projects"})

processStructuredData(data, source) ==
  IF structuredThrows(data) THEN Thrown(JoinOfUndefined)
  ELSE Returned(
         [i \in 1..Len(data.apps) |->
            structuredDocument(projectText(data.apps[i]), source, "project")]
         \o [i \in 1..Len(data.experience) |->
               structuredDocument(experienceText(data.experience[i]), source, "experience")]
         \o [i \in 1..Len(data.education) |->
               structuredDocument(educationText(data.education[i]), source, "education")]
         \o (IF "about" \in DOMAIN data
             THEN <<structuredDocument(aboutText(data.about), source, "about")>>
             ELSE <<>>))

InitStructured ==
  /\ processor \in Processors
  /\ contentData \in StructuredInputs
  /\ file = NoFile
  /\ processed = NoResult
  /\ chunker = NoChunker
  /\ userQuery = ""
  /\ pc = "idle"
  /\ result = NoResult
  /\ ServiceIdle
  /\ SelectorIdle
  /\ IngestIdle
  /\ ChatIdle

ProcessStructuredData ==
  /\ processed = NoResult
  /\ processed' = processStructuredData(contentData, "website")
  /\ UNCHANGED <<env, contentData, pinecone, isInitialized, pc, userQuery, conversationHistory,
                 searchResults, contexts, prompt, completion, result, console, calls>>
  /\ UNCHANGED <<selections, ingestVars, processor, file, chunker, chatVars>>

NextStructured == ProcessStructuredData

SpecStructured == InitStructured /\ [][NextStructured]_vars

\* the logical units of the data: its projects, experience entries, education entries
\* and the about summary when there is one
LogicalUnits(data) ==
  Len(data.apps) + Len(data.experience) + Len(data.education)
    + (IF "about" \in DOMAIN data THEN 1 ELSE 0)

\* C24 as stated: processStructuredData returns one chunk per logical unit, projects first,
\* then experience, education and the about summary, so the result has
\* |apps| + |experience| + |education| + (1 if about is present) chunks, however long the
\* text of a record is.
C24_StructuredIngestion ==
  processed.kind # "none" =>
    /\ processed.kind = "return"
    /\ Len(processed.value) = LogicalUnits(contentData)
    /\ \A j \in 1..Len(processed.value) :
         processed.value[j].metadata.type
           = (IF j <= Len(contentData.apps) THEN "project"
              ELSE IF j <= Len(contentData.apps) + Len(contentData.experience) THEN "experience"
              ELSE IF j <= LogicalUnits(contentData) - (IF "about" \in DOMAIN contentData THEN 1 ELSE 0)
                   THEN "education"
              ELSE "about")

(***************************************************************************)
(* Totality of the Fallback Selector (checked under SpecFallback).         *)
(***************************************************************************)
\* C26 as stated: getFallbackContext returns a context list, and raises nothing, for
\* every query and every content of the declared types, the contents whose entries
\* lack optional properties included.
C26_FallbackSelectorTotality ==
  pc = "done" =>
    /\ result.kind = "return"
    /\ Len(result.value) >= 1

(***************************************************************************)
(* The ChatBot component.  A message is its role and content (the id and   *)
(* timestamp play no part).  A timer of handleOpenChat carries the message *)
(* of the event and the values submitMessage closed over in the render the *)
(* listener belongs to; it stands for the two timeouts, 200 ms to focus    *)
(* the input and 400 ms more to submit, of which the first changes no      *)
(* state.  The events carry a message, so that submitMessage does not turn *)
(* to the input.  A fetch is a request to /api/chat that has not settled.  *)
(***************************************************************************)
Message(role, content) == [role |-> role, content |-> content]

SorryText == "Sorry, I encountered an error. Please try again."

\* what the visitor types or picks, what an openChatWithMessage event carries, what
\* the endpoint answers
Typed == {"", " hi "}

EventMessages == {" hi "}

Responses == {"Hello."}

\* body: JSON.stringify({ message, conversationHistory })
Request(messageContent, history) == [message |-> messageContent, conversationHistory |-> history]

Remove(seq, i) == SubSeq(seq, 1, i - 1) \o SubSeq(seq, i + 1, Len(seq))

InitChat ==
  /\ ChatIdle
  /\ contentData = Content(1, 1, 1, 1, TRUE)
  /\ userQuery = ""
  /\ pc = "idle"
  /\ result = NoResult
  /\ ServiceIdle
  /\ SelectorIdle
  /\ IngestIdle
  /\ ProcessorIdle

\* handleInputChange, and a click on a suggestion; the input is disabled while loading
HandleInputChange(value) ==
  /\ ~isLoading
  /\ input' = value
  /\ isOpen' = (isOpen \/ (value # "" /\ Len(messages) > 0))
  /\ UNCHANGED <<messages, isLoading, timers, fetches>>
  /\ UNCHANGED <<queryVars, selections, ingestVars, processorVars>>

\* handleKeyboard (Cmd+I) and the close buttons
HandleKeyboard ==
  /\ isOpen' = ~isOpen
  /\ UNCHANGED <<messages, input, isLoading, timers, fetches>>
  /\ UNCHANGED <<queryVars, selections, ingestVars, processorVars>>

\* handleSubmit: submitMessage() of the current render
HandleSubmit ==
  /\ Len(messages) + Len(fetches) + Len(timers) < MaxMessages
  /\ IF trim(input) = "" \/ isLoading
     THEN UNCHANGED chatVars
     ELSE /\ isOpen' = TRUE
          /\ messages' = Append(messages, Message("user", trim(input)))
          /\ input' = ""
          /\ isLoading' = TRUE
          /\ fetches' = Append(fetches, Request(trim(input), messages))
          /\ UNCHANGED timers
  /\ UNCHANGED <<queryVars, selections, ingestVars, processorVars>>

\* handleOpenChat: the event fills the input, opens the chat and starts the timer
HandleOpenChat(message) ==
  /\ Len(timers) < MaxTimers
  /\ Len(messages) + Len(fetches) + Len(timers) < MaxMessages
  /\ input' = message
  /\ isOpen' = TRUE
  /\ timers' = Append(timers,
                      [message |-> message,
                       submitMessage |-> [isLoading |-> isLoading, isOpen |-> isOpen,
                                          messages |-> messages]])
  /\ UNCHANGED <<messages, isLoading, fetches>>
  /\ UNCHANGED <<queryVars, selections, ingestVars, processorVars>>

\* the timeouts have run out, the earliest first: submitMessage(message) of the render
\* the listener was created in
TimerSubmit ==
  /\ timers # <<>>
  /\ timers' = Tail(timers)
  /\ LET closure == timers[1].submitMessage
         messageContent == trim(timers[1].message)
     IN  IF messageContent = "" \/ closure.isLoading
         THEN UNCHANGED <<isOpen, messages, input, isLoading, fetches>>
         ELSE /\ isOpen' = (IF closure.isOpen THEN isOpen ELSE TRUE)
              /\ messages' = Append(messages, Message("user", messageContent))
              /\ input' = ""
              /\ isLoading' = TRUE
              /\ fetches' = Append(fetches, Request(messageContent, closure.messages))
  /\ UNCHANGED <<queryVars, selections, ingestVars, processorVars>>

\* the response arrives with data.response
FetchResolved(i, response) ==
  /\ i \in 1..Len(fetches)
  /\ fetches' = Remove(fetches, i)
  /\ messages' = Append(messages, Message("assistant", response))
  /\ isLoading' = FALSE
  /\ UNCHANGED <<isOpen, input, timers>>
  /\ UNCHANGED <<queryVars, selections, ingestVars, processorVars>>

\* the request failed without the finally block
FetchFailed_noFinally(i) ==
  /\ i \in 1..Len(fetches)
  /\ fetches' = Remove(fetches, i)
  /\ messages' = Append(messages, Message("assistant", SorryText))
  /\ UNCHANGED <<isOpen, input, isLoading, timers>>
  /\ UNCHANGED <<queryVars, selections, ingestVars, processorVars>>

\* the response carries data.error, or fetch or response.json() rejects: either way the
\* catch block answers with the fixed text (and logs to the browser's console, which is
\* no part of the state here), then the finally block runs
FetchFailed(i) ==
  /\ i \in 1..Len(fetches)
  /\ fetches' = Remove(fetches, i)
  /\ messages' = Append(messages, Message("assistant", SorryText))
  /\ isLoading' = FALSE
  /\ UNCHANGED <<isOpen, input, timers>>
  /\ UNCHANGED <<queryVars, selections, ingestVars, processorVars>>

\* handleClear; the button is in the open chat and disabled without messages
HandleClear ==
  /\ isOpen
  /\ Len(messages) > 0
  /\ messages' = <<>>
  /\ UNCHANGED <<isOpen, input, isLoading, timers, fetches>>
  /\ UNCHANGED <<queryVars, selections, ingestVars, processorVars>>

NextChat ==
  \/ \E value \in Typed : HandleInputChange(value)
  \/ HandleKeyboard
  \/ HandleSubmit
  \/ \E message \in EventMessages : HandleOpenChat(message)
  \/ TimerSubmit
  \/ \E i \in 1..Len(fetches), response \in Responses : FetchResolved(i, response)
  \/ \E i \in 1..Len(fetches) : FetchFailed(i)
  \/ HandleClear

SpecChat == InitChat /\ [][NextChat]_vars

(***************************************************************************)
(* Claims about the ChatBot (checked under SpecChat).                      *)
(***************************************************************************)
\* a step that sends a request to /api/chat
Sends == Len(fetches') > Len(fetches)

\* a step in which an outstanding request settles
Settles == Len(fetches') < Len(fetches)

\* a step that appends a user message
AppendsUserMessage ==
  /\ Len(messages') = Len(messages) + 1
  /\ messages'[Len(messages')].role = "user"

\* C27 as stated: there are never two requests to /api/chat outstanding, and while one is
\* outstanding no step, be it a form submit or the delayed auto-submit of an
\* openChatWithMessage event, sends a request or appends a user message.
C27_SingleRequestInFlight ==
  /\ [](Len(fetches) <= 1)
  /\ [][fetches # <<>> => (~Sends /\ ~AppendsUserMessage)]_vars

\* the list is user, assistant, user, assistant, ...
Alternates ==
  \A j \in 1..Len(messages) :
    messages[j].role = (IF j % 2 = 1 THEN "user" ELSE "assistant")

\* C28 as stated: after any sequence of submits, responses, failures and clears the
\* messages alternate user, assistant, beginning with user, and the conversationHistory
\* sent with a request is the list of messages preceding the submitted one.
C28_MessagePairing ==
  /\ []Alternates
  /\ [][Sends => fetches'[Len(fetches')].conversationHistory = messages]_vars

\* C29: while isLoading is true a request is outstanding, and the step in which a request
\* settles, whether with a response, an error field or a rejection, sets isLoading to
\* false and appends exactly one message, of the assistant, holding the response text or
\* the fixed error text.
C29_LoadingFlag ==
  /\ [](isLoading => fetches # <<>>)
  /\ [][Settles =>
          /\ ~isLoading'
          /\ Len(messages') = Len(messages) + 1
          /\ SubSeq(messages', 1, Len(messages)) = messages
          /\ messages'[Len(messages')].role = "assistant"
          /\ messages'[Len(messages')].content \in Responses \cup {SorryText}]_vars

\* a submitted message answered with the fixed error text, the flag down again
C29_Witness ==
  /\ messages = <<Message("user", "hi"), Message("assistant", SorryText)>>
  /\ ~isLoading
  /\ fetches = <<>>

(***************************************************************************)
(* The service without a vector backend: ingestion calls and queries on    *)
(* the same RAGService, in any order, with PINECONE_API_KEY unset.         *)
(***************************************************************************)
InitNoBackend ==
  /\ env \in {[OPENAI_API_KEY |-> k, PINECONE_API_KEY |-> "unset"] : k \in BOOLEAN}
  /\ contentData \in ServiceContents
  /\ pinecone = "null"
  /\ isInitialized = FALSE
  /\ pc = "idle"
  /\ userQuery = ""
  /\ conversationHistory = <<>>
  /\ searchResults = NoSearch
  /\ contexts = <<>>
  /\ prompt = ""
  /\ completion = NoCompletion
  /\ result = NoResult
  /\ console = <<>>
  /\ calls = NoCalls
  /\ SelectorIdle
  /\ IngestIdle
  /\ ProcessorIdle
  /\ ChatIdle

NextNoBackend ==
  \/ \E n \in DocCounts : IngestCall(Documents(n))
  \/ \E q \in {"hello", "education"}, h \in {<<>>, <<Turn(1)>>} : QueryCall(q, h, FALSE)
  \/ \E cmp \in Completions : CompletionResolved(cmp)
  \/ \E e \in OpenAIErrors : CompletionRejected(e)
  \/ QueryFinished

SpecNoBackend == InitNoBackend /\ [][NextNoBackend]_vars

\* C30: with no Pinecone credential every ingestDocuments call, whatever its document
\* list, throws the 'Pinecone is not initialized' error having requested no embedding and
\* no upsert; the service is left initialised in fallback mode, and a query made on it
\* requests no embedding and no index search and, once the completion is answered with
\* a text, returns a string, which is that text unless it is empty.
C30_IngestionWithoutBackend ==
  /\ \A r \in 1..Len(runs) :
       /\ runs[r].result = Thrown(NoPineconeError)
       /\ runs[r].requested = 0
       /\ runs[r].replies = <<>>
  /\ upserts = <<>>
  /\ runs # <<>> => (isInitialized /\ pinecone = "null")
  /\ calls.embedding = 0 /\ calls.index = 0
  /\ (runs # <<>> /\ pc = "done" /\ completion.received /\ BackendHasText) =>
       /\ result.kind = "return"
       /\ completion.choices[1].message.content # "" =>
            result.value = completion.choices[1].message.content

\* an empty list and the longest list have been refused, and a query on the service the
\* first of these calls initialised has been answered with the text of the completion
C30_Witness ==
  /\ Len(runs) = 2
  /\ runs[1].documents = <<>>
  /\ Len(runs[2].documents) = MaxDocs
  /\ pc = "done"
  /\ calls.chat = 1
  /\ result = Returned("I build RAG systems.")
  /\ "RAG service initialized in fallback mode (no Pinecone)" \notin LoggedTexts

=============================================================================
